---- MODULE Spec2Model ----
(***************************************************************************)
(* Object-following subsystem of Bionic-Dog-2.0:                           *)
(*   FollowingBehavior  (features/object_following/following_behavior.py)  *)
(*   ObjectDetector     (features/object_following/object_detector.py)     *)
(*   TrackingController (features/object_following/tracking_controller.py) *)
(*                                                                         *)
(* One caller context issues the API calls; every start_detection and      *)
(* start_tracking spawns a background thread.  A call is split into steps  *)
(* at the places where it blocks (thread joins, the command transport), so *)
(* that the background threads interleave with it as they do in the code.  *)
(*                                                                         *)
(* Time is counted in ticks of 0.1 s.  The code only ever compares         *)
(* time.time() - last_command_time with thresholds of at most 1.0 s, so    *)
(* the model keeps that difference ("age"), saturated just above the       *)
(* largest threshold, instead of the absolute clock.                       *)
(***************************************************************************)
EXTENDS Integers, Sequences, FiniteSets, TLC

-----------------------------------------------------------------------------
(* Bounds of the model *)

\* control threads alive at once, and frames processed, in Spec
MaxTrackThreads == 2
MaxFrames == 2
\* the same in the specifications of a single control cycle
SoloTrackThreads == 1
SoloFrames == 1
\* detection threads alive at once
MaxDetectThreads == 1
\* frames handled by the detector in SpecHistory, those before Init included
MaxHistoryFrames == 32
\* longest list of detections in SpecSelect
MaxListLen == 3
\* messages sent in one run, in SpecMessages
MaxMessages == 3
\* detections in one list, in SpecTarget
MaxTargets == 2
\* contours in one camera frame, in SpecColor
MaxContours == 2
\* frames processed in SpecSearch
SearchFrames == 3
\* largest |pid_error_sum|, in units of 1/92160
MaxPidSum == 130000

(* Program constants, times in ticks of 0.1 s *)

DefaultCommandInterval == 5
SearchInterval == 10
SearchPause == 3
TickSleep == 1
ErrorSleep == 5
FrameFailSleep == 1
JoinTimeout == 20
FrameWidth == 640
FrameHeight == 480
HistoryCap == 30
DefaultCenterThreshold == 150
DefaultDistanceThreshold == 300
DefaultMaxDistance == 800
ColorMinArea == 500
ColorFullArea == 5000
PidDeadband == 100

\* saturation value of every clock difference: the first value above every
\* threshold the code compares a difference with
AgeCap == SearchInterval + 1

Min(a, b) == IF a < b THEN a ELSE b
Abs(a) == IF a < 0 THEN 0 - a ELSE a
Sat(n) == Min(n, AgeCap)

-----------------------------------------------------------------------------
(* Values *)

TrackingModes == {"follow", "observe", "approach", "maintain_distance"}
DetectionMethods == {"color_tracking", "face_detection", "yolo_object", "template_matching"}
Dogs == {"tom", "jerry"}

\* target_object = None
NoneObj == [type |-> "none", cx |-> 0, cy |-> 0, area |-> 0, conf |-> 0]

\* a detected object: centre in pixels, area in pixels^2, confidence in 1/100
Obj(ty, x, y, a, c) == [type |-> ty, cx |-> x, cy |-> y, area |-> a, conf |-> c]

FaceCentered == Obj("face", 320, 240, 40000, 80)
FaceFarRight == Obj("face", 620, 240, 2500, 80)
ColorNearLeft == Obj("color_object", 20, 240, 70000, 100)
\* two faces at the same distance from the centre, left and right of it
FaceLeftOfCentre == Obj("face", 300, 240, 40000, 80)
FaceRightOfCentre == Obj("face", 340, 240, 40000, 80)
\* as ColorNearLeft, with another area above the cap of the score
ColorHugeLeft == Obj("color_object", 20, 240, 90000, 100)
\* faces for the steering decisions: beyond max_distance, nearer than
\* distance_threshold, at a good distance right and left of the centre, and
\* at a good distance with |relative_x| equal to center_threshold
FaceTiny == Obj("face", 320, 240, 100, 80)
FaceNearLeft == Obj("face", 20, 240, 70000, 80)
FaceMidRight == Obj("face", 620, 240, 40000, 80)
FaceMidLeft == Obj("face", 20, 240, 40000, 80)
FaceAtThreshold == Obj("face", 368, 240, 40000, 80)
\* centred faces: nearer than distance_threshold, and of area 8000
FaceNearCentred == Obj("face", 320, 240, 70000, 80)
FaceCentredSmall == Obj("face", 320, 240, 8000, 80)
\* template matches that differ in confidence only, and in area only
TemplateStrong == Obj("template_match", 320, 180, 5000, 90)
TemplateWeak == Obj("template_match", 320, 180, 5000, 70)
TemplateSmall == Obj("template_match", 320, 180, 2500, 70)

\* the outcomes of one call of dog_control_callback
TransportOutcomes == {"ok", "fail", "raise"}

-----------------------------------------------------------------------------
(* TrackingController._calculate_position_metrics, in exact integer         *)
(* arithmetic: thresholds are in 1/1000, relative_x = (cx - 320) / 320,     *)
(* distance_estimate = 1 - min(area / (640 * 480 * 0.3), 1).                *)

HalfWidth == FrameWidth \div 2
DistanceAreaRef == (FrameWidth * FrameHeight * 3) \div 10

\* distance_estimate * DistanceAreaRef
DistanceNum(obj) == DistanceAreaRef - Min(obj.area, DistanceAreaRef)

IsCenteredX(obj, ct) == Abs(obj.cx - HalfWidth) * 1000 < ct * HalfWidth
RightOfCenter(obj, ct) == (obj.cx - HalfWidth) * 1000 > ct * HalfWidth
LeftOfCenter(obj, ct) == (obj.cx - HalfWidth) * 1000 < (0 - ct) * HalfWidth
IsClose(obj, dt) == DistanceNum(obj) * 1000 < dt * DistanceAreaRef
IsFar(obj, md) == DistanceNum(obj) * 1000 > md * DistanceAreaRef

\* the left/right correction shared by every behaviour; "none": no command
OrientCommand(obj, ct) ==
    IF RightOfCenter(obj, ct) THEN "right"
    ELSE IF LeftOfCenter(obj, ct) THEN "left"
    ELSE "none"

\* _execute_follow_behavior
FollowCommand(obj, ct, dt, md) ==
    IF IsFar(obj, md) THEN "forward"
    ELSE IF IsClose(obj, dt) THEN "reverse"
    ELSE IF ~IsCenteredX(obj, ct) THEN OrientCommand(obj, ct)
    ELSE "steady"

\* _execute_observe_behavior with the distance branches of follow
ObserveCommandAsFollow(obj, ct) ==
    FollowCommand(obj, ct, DefaultDistanceThreshold, DefaultMaxDistance)

\* _execute_observe_behavior
ObserveCommand(obj, ct) ==
    IF ~IsCenteredX(obj, ct) THEN OrientCommand(obj, ct) ELSE "steady"

\* _execute_approach_behavior
ApproachCommand(obj, ct, dt) ==
    IF ~IsClose(obj, dt)
    THEN IF ~IsCenteredX(obj, ct) THEN OrientCommand(obj, ct) ELSE "forward"
    ELSE "handshake"

(* _execute_maintain_distance_behavior: the PID step.  Errors are kept in   *)
(* units of 1/DistanceAreaRef, gains in 1/20 (kp = 20, ki = 2, kd = 1), so  *)
(* pid_output is in units of 1/(20 * DistanceAreaRef).                      *)
DistanceError(obj, dt) == (dt * DistanceAreaRef) \div 1000 - DistanceNum(obj)

PidOutput(err, sum, last, kp, ki, kd) == kp * err + ki * (sum + err) + kd * (err - last)

\* abs(pid_output) > 0.1
PidCommand(out) ==
    IF Abs(out) * 1000 > PidDeadband * 20 * DistanceAreaRef
    THEN IF out > 0 THEN "forward" ELSE "reverse"
    ELSE "none"

-----------------------------------------------------------------------------
(* FollowingBehavior._select_target *)

HalfHeight == FrameHeight \div 2

(* The score of _auto_select_target, lines 144-161:                         *)
(*   score = 0.4 * confidence + 0.4 * min(area / 10000, 1)                  *)
(*           + 0.2 * (1 - center_distance / max_distance)                   *)
(* The model keeps 100000 * max_distance * score, an integer for confidence *)
(* in 1/100 and a centre at a whole distance from the centre of the frame;  *)
(* the objects of the model are chosen so (centres on the axes of the       *)
(* frame or at Pythagorean offsets), so that no square root is rounded.     *)

\* the square root of a perfect square
ExactRoot(n) == CHOOSE r \in 0..(FrameWidth + FrameHeight) : r * r = n

\* center_distance, lines 153-154
CenterDistance(obj) ==
    ExactRoot((obj.cx - HalfWidth) * (obj.cx - HalfWidth)
              + (obj.cy - HalfHeight) * (obj.cy - HalfHeight))

\* max_distance, line 155: 800 for the 640 x 480 frame
MaxCenterDistance == ExactRoot(FrameWidth * FrameWidth + FrameHeight * FrameHeight)

\* 100000 * max_distance * score, lines 158-161
\* the score with the weight of the confidence negated
ScoreLowConfidenceFirst(obj) ==
    4 * Min(obj.area, 10000) * MaxCenterDistance
    + 20000 * (MaxCenterDistance - CenterDistance(obj))
    + 400 * (100 - obj.conf) * MaxCenterDistance

Score(obj) ==
    400 * obj.conf * MaxCenterDistance
    + 4 * Min(obj.area, 10000) * MaxCenterDistance
    + 20000 * (MaxCenterDistance - CenterDistance(obj))

\* the loop with `score >= best_score`: among equal scores the last one wins
BestOfLastWins(objs) ==
    LET F[i \in 0..Len(objs)] ==
            IF i = 0 THEN [best |-> NoneObj, score |-> 0]
            ELSE IF Score(objs[i]) >= F[i - 1].score
                 THEN [best |-> objs[i], score |-> Score(objs[i])]
                 ELSE F[i - 1]
    IN F[Len(objs)].best

\* the loop of _auto_select_target, lines 148-167: best_score starts at 0 and
\* a candidate replaces the best one only when score > best_score
BestOf(objs) ==
    LET F[i \in 0..Len(objs)] ==
            IF i = 0 THEN [best |-> NoneObj, score |-> 0]
            ELSE IF Score(objs[i]) > F[i - 1].score
                 THEN [best |-> objs[i], score |-> Score(objs[i])]
                 ELSE F[i - 1]
    IN F[Len(objs)].best

AutoSelectTarget(objs, ty) ==
    LET IsType(o) == o.type = ty
        filtered == SelectSeq(objs, IsType)
    IN IF ty # "any" /\ filtered # << >> THEN BestOf(filtered) ELSE BestOf(objs)

\* _manual_select_target without the loop over the configured type
ManualSelectFirst(objs, ty) == IF objs # << >> THEN objs[1] ELSE NoneObj

ManualSelectTarget(objs, ty) ==
    LET IsType(o) == o.type = ty
        filtered == SelectSeq(objs, IsType)
    IN IF filtered # << >> THEN filtered[1]
       ELSE IF objs # << >> THEN objs[1] ELSE NoneObj

SelectTarget(objs, mode, ty) ==
    IF objs = << >> THEN NoneObj
    ELSE IF mode = "automatic" THEN AutoSelectTarget(objs, ty)
    ELSE ManualSelectTarget(objs, ty)


-----------------------------------------------------------------------------
(* State *)

VARIABLES
    \* FollowingBehavior
    is_active, current_mode, target_selection_mode, selected_target_type, stats,
    \* ObjectDetector
    is_detecting, detection_method, detection_thread, tracked_objects,
    tracking_history,
    \* TrackingController
    is_tracking, tracking_thread, target_object, tracking_mode, target_dog,
    params, pid_error_sum, pid_last_error,
    \* time.time() - last_command_time, saturated at AgeCap
    age,
    \* the background threads: dthread[d] runs _detection_loop, tthread[t]
    \* runs _tracking_loop; pc = "none" is a thread that never ran or has ended
    dthread, tthread,
    \* the caller: the API call in progress and where it stands
    call,
    \* observation: what the last step did (a command handed to the transport,
    \* a call that returned) and the time since the last command was handed over
    ev, sendAge,
    \* the bounds of the run, fixed by Init: the threads of each kind that may
    \* be alive at once, the frames the camera delivers, the ticks per time
    \* step, the largest magnitude of pid_error_sum
    limits,
    \* the caller: the dictionary the last get_current_status returned
    status,
    \* ObjectDetector.target_color, and the contours cv2.findContours finds in
    \* the frame the camera delivers
    target_color, scene,
    \* enhanced_dog_controller: app_state['following_active']
    app_state,
    \* MessageHandler.message_queue, the lists get_messages has returned to
    \* each robot, one after the other, and the clock of datetime.now() as the
    \* number of messages sent
    message_queue, received, sent

fbVars == <<is_active, current_mode, target_selection_mode, selected_target_type, stats>>
detVars == <<is_detecting, detection_method, detection_thread, tracked_objects,
             tracking_history>>
trkVars == <<is_tracking, tracking_thread, target_object, tracking_mode, target_dog,
             params, pid_error_sum, pid_last_error, age>>
colVars == <<target_color, scene>>
msgVars == <<message_queue, received, sent>>
vars == <<fbVars, detVars, trkVars, dthread, tthread, call, ev, sendAge, limits,
          status, colVars, app_state, msgVars>>

TrackIds == 1..MaxTrackThreads
DetectIds == 1..MaxDetectThreads

NoStats == [session_start_time |-> "none", total_detections |-> 0,
            successful_follows |-> 0, lost_target_count |-> 0]
FreshStats == [session_start_time |-> "set", total_detections |-> 0,
               successful_follows |-> 0, lost_target_count |-> 0]

DefaultParams == [center_threshold |-> DefaultCenterThreshold,
                  distance_threshold |-> DefaultDistanceThreshold,
                  max_distance |-> DefaultMaxDistance,
                  command_interval |-> DefaultCommandInterval,
                  pid_kp |-> 20, pid_ki |-> 2, pid_kd |-> 1]

NoThread == [pc |-> "none", wake |-> 0]
NoTrack == [pc |-> "none", wake |-> 0, lag |-> 0, cmd |-> "none", via |-> "none",
            cont |-> "none", obj |-> NoneObj]
IdleCall == [op |-> "none", pc |-> "idle", dog |-> "tom", method |-> "color_tracking",
             mode |-> "follow", join |-> 0]
NoEv == [kind |-> "none"]

\* no dictionary has been returned yet
NoStatus == [taken |-> FALSE]
\* enhanced_dog_controller.py, app_state at import
AppState == [following_active |-> FALSE]
\* the robots a message can be addressed to, 'both' as the sync route does
Recipients == Dogs \cup {"both"}

\* __init__ of the classes

InitObjects ==
    /\ status = NoStatus
    /\ target_color = "none"
    /\ scene = << >>
    /\ app_state = AppState
    /\ message_queue = << >>
    /\ received = [d \in Recipients |-> << >>]
    /\ sent = 0
    /\ is_active = FALSE
    /\ current_mode = "follow"
    /\ target_selection_mode = "automatic"
    /\ selected_target_type = "face"
    /\ stats = NoStats
    /\ is_detecting = FALSE
    /\ detection_method = "color_tracking"
    /\ detection_thread = 0
    /\ tracked_objects = << >>
    /\ tracking_history = << >>
    /\ is_tracking = FALSE
    /\ tracking_thread = 0
    /\ target_object = NoneObj
    /\ tracking_mode = "follow"
    /\ target_dog = "tom"
    /\ params = DefaultParams
    /\ pid_error_sum = 0
    /\ pid_last_error = 0
    /\ age = AgeCap
    /\ dthread = [d \in DetectIds |-> NoThread]
    /\ tthread = [t \in TrackIds |-> NoTrack]
    /\ call = IdleCall
    /\ ev = NoEv
    /\ sendAge = AgeCap

Limits(nt, nd, nf, st, ps) ==
    [track |-> nt, detect |-> nd, frames |-> nf, step |-> st, pidsum |-> ps]

TrackAlive(t) == t # 0 /\ tthread[t].pc # "none"
DetectAlive(d) == d # 0 /\ dthread[d].pc # "none"
FreeTrack == {t \in 1..limits.track : tthread[t].pc = "none"}
FreeDetect == {d \in 1..limits.detect : dthread[d].pc = "none"}
LowestOf(S) == CHOOSE x \in S : \A y \in S : x <= y

Returned(op, value, why) == [kind |-> "return", op |-> op, value |-> value, why |-> why]
Dispatched(cmd, src, dog) ==
    [kind |-> "dispatch", cmd |-> cmd, src |-> src, dog |-> dog, gap |-> sendAge]

-----------------------------------------------------------------------------
(* The caller: FollowingBehavior.start_following *)

\* stop_detection without line 83: the flag is left set
BeginStopDetectionKeepsFlag(op) ==
    /\ UNCHANGED is_detecting
    /\ call' = [call EXCEPT !.op = op, !.pc = "join_detection",
                            !.join = IF DetectAlive(detection_thread)
                                     THEN JoinTimeout ELSE 0]

\* ObjectDetector.stop_detection up to its join: clears the flag, then waits
\* for detection_thread (at most JoinTimeout) if it is alive
BeginStopDetection(op) ==
    /\ is_detecting' = FALSE
    /\ call' = [call EXCEPT !.op = op, !.pc = "join_detection",
                            !.join = IF DetectAlive(detection_thread)
                                     THEN JoinTimeout ELSE 0]

\* ObjectDetector.start_detection, the branch that starts a cycle
StartDetection(method) ==
    /\ FreeDetect # {}
    /\ detection_method' = method
    /\ is_detecting' = TRUE
    /\ detection_thread' = LowestOf(FreeDetect)
    /\ dthread' = [dthread EXCEPT ![LowestOf(FreeDetect)] = [pc |-> "open", wake |-> 0]]

\* start_tracking without lines 61-62: the PID accumulators are kept
StartTrackingKeepsPid(dog, mode) ==
    /\ FreeTrack # {}
    /\ target_dog' = dog
    /\ tracking_mode' = mode
    /\ is_tracking' = TRUE
    /\ UNCHANGED <<pid_error_sum, pid_last_error>>
    /\ tracking_thread' = LowestOf(FreeTrack)
    /\ tthread' = [tthread EXCEPT ![LowestOf(FreeTrack)] = [NoTrack EXCEPT !.pc = "loop"]]

\* TrackingController.start_tracking, the branch that starts a cycle
StartTracking(dog, mode) ==
    /\ FreeTrack # {}
    /\ target_dog' = dog
    /\ tracking_mode' = mode
    /\ is_tracking' = TRUE
    /\ pid_error_sum' = 0
    /\ pid_last_error' = 0
    /\ tracking_thread' = LowestOf(FreeTrack)
    /\ tthread' = [tthread EXCEPT ![LowestOf(FreeTrack)] = [NoTrack EXCEPT !.pc = "loop"]]

\* a start_following that meets a failed precondition, with a changed order
\* of statements: the detection method is stored before the check
RefuseStartMethodFirst(dog, method, mode, why) ==
    /\ ev' = [kind |-> "return", op |-> "start_following", value |-> FALSE,
              why |-> why, dog |-> dog, method |-> method, mode |-> mode]
    /\ detection_method' = method
    /\ UNCHANGED <<fbVars, is_detecting, detection_thread, tracked_objects,
                   tracking_history, trkVars, dthread, tthread, call, sendAge>>

\* lines 44-46 and 49-51: a failed precondition; start_following returns False
\* and nothing has been touched
RefuseStart(dog, method, mode, why) ==
    /\ ev' = [kind |-> "return", op |-> "start_following", value |-> FALSE,
              why |-> why, dog |-> dog, method |-> method, mode |-> mode]
    /\ UNCHANGED <<fbVars, detVars, trkVars, dthread, tthread, call, sendAge>>

\* start_following, lines 44-51: the two precondition checks and start_detection
StartFollowing(dog, method, mode) ==
    /\ call.pc = "idle"
    /\ IF is_active THEN RefuseStart(dog, method, mode, "already_active")
       ELSE IF is_detecting THEN RefuseStart(dog, method, mode, "detection_failed")
       ELSE /\ StartDetection(method)
            /\ call' = [call EXCEPT !.op = "start_following", !.pc = "start_tracking",
                                    !.dog = dog, !.method = method, !.mode = mode]
            /\ ev' = NoEv
            /\ UNCHANGED <<fbVars, tracked_objects, tracking_history, trkVars,
                           tthread, sendAge>>
    /\ UNCHANGED <<limits, status, colVars, app_state, msgVars>>

\* start_following, lines 54-57: start_tracking, and the unwinding when it fails
StartFollowingTrack ==
    /\ call.op = "start_following" /\ call.pc = "start_tracking"
    /\ IF is_tracking
       THEN /\ BeginStopDetection("start_following")
            /\ UNCHANGED <<fbVars, detection_method, detection_thread, tracked_objects,
                           tracking_history, trkVars, dthread, tthread, sendAge>>
       ELSE /\ StartTracking(call.dog, call.mode)
            /\ call' = [call EXCEPT !.pc = "commit"]
            /\ UNCHANGED <<fbVars, detVars, target_object, params, age, dthread,
                           sendAge>>
    /\ ev' = NoEv
    /\ UNCHANGED <<limits, status, colVars, app_state, msgVars>>

\* start_following, lines 59-69
StartFollowingCommit ==
    /\ call.op = "start_following" /\ call.pc = "commit"
    /\ is_active' = TRUE
    /\ current_mode' = call.mode
    /\ stats' = FreshStats
    /\ call' = IdleCall
    /\ ev' = Returned("start_following", TRUE, "started")
    /\ UNCHANGED <<target_selection_mode, selected_target_type, detVars, trkVars,
                   dthread, tthread, sendAge>>
    /\ UNCHANGED <<limits, status, colVars, app_state, msgVars>>

-----------------------------------------------------------------------------
(* The caller: stop_following and emergency_stop *)

\* TrackingController.stop_tracking up to its join
BeginStopTracking(op) ==
    /\ is_tracking' = FALSE
    /\ call' = [call EXCEPT !.op = op, !.pc = "join_tracking",
                            !.join = IF TrackAlive(tracking_thread)
                                     THEN JoinTimeout ELSE 0]

\* stop_following without lines 78-80: the sub-components are stopped whether
\* or not a session is active
StopFollowingUnchecked ==
    /\ call.pc = "idle"
    /\ BeginStopTracking("stop_following")
    /\ ev' = NoEv
    /\ UNCHANGED <<fbVars, detVars, tracking_thread, target_object, tracking_mode,
                   target_dog, params, pid_error_sum, pid_last_error, age, dthread,
                   tthread, sendAge>>
    /\ UNCHANGED <<limits, status, colVars, app_state, msgVars>>

\* stop_following, lines 78-83
StopFollowing ==
    /\ call.pc = "idle"
    /\ IF ~is_active
       THEN /\ ev' = Returned("stop_following", TRUE, "not_active")
            /\ UNCHANGED <<fbVars, detVars, trkVars, dthread, tthread, call, sendAge>>
       ELSE /\ BeginStopTracking("stop_following")
            /\ ev' = NoEv
            /\ UNCHANGED <<fbVars, detVars, tracking_thread, target_object,
                           tracking_mode, target_dog, params, pid_error_sum,
                           pid_last_error, age, dthread, tthread, sendAge>>
    /\ UNCHANGED <<limits, status, colVars, app_state, msgVars>>

\* emergency_stop, lines 252-254: no precondition
EmergencyStop ==
    /\ call.pc = "idle"
    /\ BeginStopTracking("emergency_stop")
    /\ ev' = NoEv
    /\ UNCHANGED <<fbVars, detVars, tracking_thread, target_object, tracking_mode,
                   target_dog, params, pid_error_sum, pid_last_error, age, dthread,
                   tthread, sendAge>>
    /\ UNCHANGED <<limits, status, colVars, app_state, msgVars>>

(* Readiness.  A thread is ready when its next step needs neither the end  *)
(* of a sleep nor the return of the transport or of the camera.  A ready    *)
(* thread runs before time passes and before a join on it times out.        *)

\* the bound of the model on pid_error_sum
PidWithinBound ==
    \/ tracking_mode # "maintain_distance"
    \/ target_object = NoneObj
    \/ Abs(pid_error_sum + DistanceError(target_object, params.distance_threshold))
          <= limits.pidsum

TrackReady(t) ==
    \/ tthread[t].pc \in {"loop", "pause"} /\ tthread[t].wake = 0
    \/ tthread[t].pc = "orient"
    \/ tthread[t].pc = "metrics" /\ PidWithinBound

DetectReady(d) == dthread[d].pc = "wait" /\ dthread[d].wake = 0

\* Thread.join(timeout=2) returns: the thread has ended, or the timeout has
\* expired on a thread that is asleep or blocked
JoinedTracking ==
    IF TrackAlive(tracking_thread)
    THEN call.join = 0 /\ ~TrackReady(tracking_thread)
    ELSE TRUE

JoinedDetection ==
    IF DetectAlive(detection_thread)
    THEN call.join = 0 /\ ~DetectReady(detection_thread)
    ELSE TRUE

CallerReady ==
    \/ call.pc = "start_tracking" /\ (is_tracking \/ FreeTrack # {})
    \/ call.pc = "commit"
    \/ call.pc = "join_tracking" /\ JoinedTracking
    \/ call.pc = "join_detection" /\ JoinedDetection

Ready ==
    \/ \E t \in TrackIds : TrackReady(t)
    \/ \E d \in DetectIds : DetectReady(d)
    \/ CallerReady

\* stop_tracking, lines 76-80: the join ends when the thread has ended or the
\* timeout has run out; then 'stop' is handed to the transport
JoinTracking ==
    /\ call.pc = "join_tracking"
    /\ JoinedTracking
    /\ call' = [call EXCEPT !.pc = "stop_call", !.join = 0]
    /\ ev' = Dispatched("stop", "stop_tracking", target_dog)
    /\ sendAge' = 0
    /\ UNCHANGED <<fbVars, detVars, trkVars, dthread, tthread>>
    /\ UNCHANGED <<limits, status, colVars, app_state, msgVars>>

\* what follows the return of stop_tracking's transport call: a raise leaves
\* stop_tracking and is caught by the caller's except clause (line 93, line
\* 257); otherwise stop_detection begins
\* stop_following and emergency_stop without their except clauses: the
\* exception of the transport leaves the call
AfterStopCallEscapes(outcome) ==
    IF outcome = "raise"
    THEN /\ call' = IdleCall
         /\ ev' = [kind |-> "escape", op |-> call.op]
         /\ UNCHANGED is_detecting
    ELSE /\ BeginStopDetection(call.op)
         /\ ev' = NoEv

AfterStopCall(outcome) ==
    IF outcome = "raise"
    THEN /\ call' = IdleCall
         /\ ev' = Returned(call.op, TRUE, "exception")
         /\ UNCHANGED is_detecting
    ELSE /\ BeginStopDetection(call.op)
         /\ ev' = NoEv

StopCallReturn(outcome) ==
    /\ call.pc = "stop_call"
    /\ AfterStopCall(outcome)
    /\ UNCHANGED <<fbVars, detection_method, detection_thread, tracked_objects,
                   tracking_history, trkVars, dthread, tthread, sendAge>>
    /\ UNCHANGED <<limits, status, colVars, app_state, msgVars>>

\* stop_detection's join, and what the three callers do after it
JoinDetection ==
    /\ call.pc = "join_detection"
    /\ JoinedDetection
    /\ call' = IdleCall
    /\ IF call.op = "start_following"
       THEN /\ ev' = Returned("start_following", FALSE, "tracking_failed")
            /\ UNCHANGED is_active
       ELSE IF call.op = "stop_detection"
       THEN /\ ev' = Returned("stop_detection", TRUE, "stopped")
            /\ UNCHANGED is_active
       ELSE /\ is_active' = FALSE
            /\ ev' = Returned(call.op, TRUE, "stopped")
    /\ UNCHANGED <<current_mode, target_selection_mode, selected_target_type, stats,
                   detVars, trkVars, dthread, tthread, sendAge>>
    /\ UNCHANGED <<limits, status, colVars, app_state, msgVars>>

-----------------------------------------------------------------------------
(* The control cycle: TrackingController._tracking_loop *)

SetTrack(t, rec) == tthread' = [tthread EXCEPT ![t] = rec]

\* time.sleep(n): the thread is back at the loop condition after n ticks
Sleeping(n) == [NoTrack EXCEPT !.pc = "loop", !.wake = n]

\* the thread record of a command handed to the transport
Calling(cmd, via, cont, obj, lag) ==
    [NoTrack EXCEPT !.pc = "call", !.cmd = cmd, !.via = via, !.cont = cont,
                    !.obj = obj, !.lag = lag]

\* line 90: the loop condition
KeepsTracking == is_tracking

\* lines 90-96 and 105-108, 241-247: the loop condition, the reads of
\* target_object at line 92 and line 107, and without a target
\* _search_for_target up to its first command
TrackLoop(t) ==
    /\ tthread[t].pc = "loop" /\ tthread[t].wake = 0
    /\ IF ~KeepsTracking
       THEN /\ SetTrack(t, NoTrack)
            /\ ev' = NoEv
            /\ UNCHANGED sendAge
       ELSE IF target_object # NoneObj
       THEN /\ SetTrack(t, [NoTrack EXCEPT !.pc = "metrics"])
            /\ ev' = NoEv
            /\ UNCHANGED sendAge
       ELSE IF age > SearchInterval
       THEN /\ SetTrack(t, Calling("right", "search_turn", "pause", NoneObj, 0))
            /\ ev' = Dispatched("right", "search", target_dog)
            /\ sendAge' = 0
       ELSE /\ SetTrack(t, Sleeping(TickSleep))
            /\ ev' = NoEv
            /\ UNCHANGED sendAge
    /\ UNCHANGED <<fbVars, detVars, trkVars, dthread, call>>
    /\ UNCHANGED <<limits, status, colVars, app_state, msgVars>>

\* a limiter that compares with the search's condition: any elapsed time passes
LimiterPassesAlways == age >= 0

\* _send_command_with_timing, lines 254-257: the limiter lets the command
\* through when current_time - last_command_time >= command_interval
LimiterPasses == age >= params.command_interval

\* one limited command: handed over if there is one and the limiter passes,
\* otherwise the thread goes on with `cont`
Limited(t, cmd, cont, obj) ==
    IF cmd # "none" /\ LimiterPasses
    THEN /\ SetTrack(t, Calling(cmd, "timing", cont, obj, 0))
         /\ ev' = Dispatched(cmd, "tick", target_dog)
         /\ sendAge' = 0
    ELSE /\ SetTrack(t, IF cont = "sleep" THEN Sleeping(TickSleep)
                        ELSE [NoTrack EXCEPT !.pc = cont, !.obj = obj])
         /\ ev' = NoEv
         /\ UNCHANGED sendAge

\* the command of the three behaviours without state
ModeCommand(mode, obj) ==
    CASE mode = "follow" ->
             FollowCommand(obj, params.center_threshold, params.distance_threshold,
                           params.max_distance)
      [] mode = "observe" -> ObserveCommand(obj, params.center_threshold)
      [] mode = "approach" ->
             ApproachCommand(obj, params.center_threshold, params.distance_threshold)
      [] OTHER -> "none"

\* lines 111-120: the third read of target_object, the metrics and the
\* behaviour of the mode; None here raises in _calculate_position_metrics and
\* the loop's except clause sleeps 0.5 s
TrackMetrics(t) ==
    /\ tthread[t].pc = "metrics"
    /\ PidWithinBound
    /\ IF target_object = NoneObj
       THEN /\ SetTrack(t, Sleeping(ErrorSleep))
            /\ ev' = NoEv
            /\ UNCHANGED <<pid_error_sum, pid_last_error, sendAge>>
       ELSE IF tracking_mode = "maintain_distance"
       THEN LET err == DistanceError(target_object, params.distance_threshold)
                out == PidOutput(err, pid_error_sum, pid_last_error,
                                 params.pid_kp, params.pid_ki, params.pid_kd)
            IN /\ pid_error_sum' = pid_error_sum + err
               /\ pid_last_error' = err
               /\ Limited(t, PidCommand(out), "orient", target_object)
       ELSE /\ Limited(t, ModeCommand(tracking_mode, target_object), "sleep", NoneObj)
            /\ UNCHANGED <<pid_error_sum, pid_last_error>>
    /\ UNCHANGED <<fbVars, detVars, is_tracking, tracking_thread, target_object,
                   tracking_mode, target_dog, params, age, dthread, call>>
    /\ UNCHANGED <<limits, status, colVars, app_state, msgVars>>

\* lines 234-239: the orientation part of maintain_distance
TrackOrient(t) ==
    /\ tthread[t].pc = "orient"
    /\ Limited(t, IF ~IsCenteredX(tthread[t].obj, params.center_threshold)
                  THEN OrientCommand(tthread[t].obj, params.center_threshold)
                  ELSE "none",
               "sleep", NoneObj)
    /\ UNCHANGED <<fbVars, detVars, trkVars, dthread, call>>
    /\ UNCHANGED <<limits, status, colVars, app_state, msgVars>>

\* the thread after its transport call returned `outcome`: a raise ends the
\* tick in the loop's except clause; a limited command and the search's stop
\* then set last_command_time to the time read before the call
AfterCall(th, outcome) ==
    IF outcome = "raise" THEN Sleeping(ErrorSleep)
    ELSE IF th.via = "search_turn"
         THEN [th EXCEPT !.pc = "pause", !.wake = SearchPause, !.cmd = "none"]
    ELSE IF th.cont = "sleep" THEN Sleeping(TickSleep)
    ELSE [NoTrack EXCEPT !.pc = th.cont, !.obj = th.obj]

WritesCommandTime(th, outcome) == outcome # "raise" /\ th.via # "search_turn"

TrackCallReturn(t, outcome) ==
    /\ tthread[t].pc = "call"
    /\ SetTrack(t, AfterCall(tthread[t], outcome))
    /\ age' = IF WritesCommandTime(tthread[t], outcome) THEN tthread[t].lag ELSE age
    /\ ev' = NoEv
    /\ UNCHANGED <<fbVars, detVars, is_tracking, tracking_thread, target_object,
                   tracking_mode, target_dog, params, pid_error_sum, pid_last_error,
                   dthread, call, sendAge>>
    /\ UNCHANGED <<limits, status, colVars, app_state, msgVars>>

\* lines 248-249: after time.sleep(0.3) the search hands over 'stop'
TrackPause(t) ==
    /\ tthread[t].pc = "pause" /\ tthread[t].wake = 0
    /\ SetTrack(t, Calling("stop", "search_stop", "sleep", NoneObj, tthread[t].lag))
    /\ ev' = Dispatched("stop", "search", target_dog)
    /\ sendAge' = 0
    /\ UNCHANGED <<fbVars, detVars, trkVars, dthread, call>>
    /\ UNCHANGED <<limits, status, colVars, app_state, msgVars>>

-----------------------------------------------------------------------------
(* The detection cycle: ObjectDetector._detection_loop *)

SetDetect(d, rec) == dthread' = [dthread EXCEPT ![d] = rec]

\* line 104: the loop condition; the thread reads the next frame or ends
NextRead == IF is_detecting THEN [pc |-> "read", wake |-> 0] ELSE NoThread

\* lines 96-104: the camera is opened and the loop entered, or the thread ends
DetectOpen(d, opened) ==
    /\ dthread[d].pc = "open"
    /\ SetDetect(d, IF opened THEN NextRead ELSE NoThread)
    /\ ev' = NoEv
    /\ UNCHANGED <<fbVars, detVars, trkVars, tthread, call, sendAge>>
    /\ UNCHANGED <<limits, status, colVars, app_state, msgVars>>

\* lines 105-110: cap.read() gave no frame
DetectNoFrame(d) ==
    /\ dthread[d].pc = "read"
    /\ SetDetect(d, [pc |-> "wait", wake |-> FrameFailSleep])
    /\ ev' = NoEv
    /\ UNCHANGED <<fbVars, detVars, trkVars, tthread, call, sendAge>>
    /\ UNCHANGED <<limits, status, colVars, app_state, msgVars>>

\* the end of time.sleep(0.1) at line 109, and the loop condition
DetectWake(d) ==
    /\ dthread[d].pc = "wait" /\ dthread[d].wake = 0
    /\ SetDetect(d, NextRead)
    /\ ev' = NoEv
    /\ UNCHANGED <<fbVars, detVars, trkVars, tthread, call, sendAge>>
    /\ UNCHANGED <<limits, status, colVars, app_state, msgVars>>

\* _update_tracking without lines 273-274: the history is never cut
AppendHistoryUncut(h, objs) == Append(h, objs)

\* _update_tracking, lines 267-274: append, keep the last HistoryCap entries
AppendHistory(h, objs) ==
    LET a == Append(h, objs)
    IN IF Len(a) > HistoryCap THEN SubSeq(a, Len(a) - HistoryCap + 1, Len(a)) ELSE a

\* the callbacks FollowingBehavior registers with the detector (lines 35-37),
\* each on the pair [stats, target] it reads and writes

\* _on_object_detected, lines 96-105
OnObjectDetected(st, objs) ==
    LET target == SelectTarget(objs, target_selection_mode, selected_target_type)
    IN [stats |-> [st.stats EXCEPT !.total_detections = @ + 1],
        target |-> IF target # NoneObj THEN target ELSE st.target]

\* _on_tracking_update clearing the target instead of selecting one
OnTrackingUpdateClears(st, objs) == [st EXCEPT !.target = NoneObj]

\* _on_tracking_update, lines 113-118
OnTrackingUpdate(st, objs) ==
    IF objs # << >>
    THEN [st EXCEPT !.target = SelectTarget(objs, target_selection_mode,
                                            selected_target_type)]
    ELSE st

\* _on_object_lost without line 110: the loss is counted, the target is kept
OnObjectLostKeepsTarget(st) ==
    [st EXCEPT !.stats = [st.stats EXCEPT !.lost_target_count = @ + 1]]

\* _on_object_lost, lines 107-111
OnObjectLost(st) ==
    [stats |-> [st.stats EXCEPT !.lost_target_count = @ + 1], target |-> NoneObj]

\* a non-empty list notifies on_object_lost as well
NotificationsLostToo(objs) ==
    IF objs # << >>
    THEN <<"on_object_detected", "on_tracking_update", "on_object_lost">>
    ELSE <<"on_object_lost">>

\* _update_tracking, lines 277-284: the callbacks fired for one frame, in order
Notifications(objs) ==
    IF objs # << >>
    THEN <<"on_object_detected", "on_tracking_update">>
    ELSE <<"on_object_lost">>

\* the callbacks `fired` run one after the other
RunCallbacks(fired, objs, st0) ==
    LET F[i \in 0..Len(fired)] ==
            IF i = 0 THEN st0
            ELSE IF fired[i] = "on_object_detected" THEN OnObjectDetected(F[i - 1], objs)
            ELSE IF fired[i] = "on_tracking_update" THEN OnTrackingUpdate(F[i - 1], objs)
            ELSE OnObjectLost(F[i - 1])
    IN F[Len(fired)]

\* lines 112-122: a frame with the detections `objs`, _update_tracking and the
\* callbacks it fires, then the loop condition
DetectFrame(d, objs) ==
    /\ dthread[d].pc = "read"
    /\ Len(tracking_history) < limits.frames
    /\ tracked_objects' = objs
    /\ tracking_history' = AppendHistory(tracking_history, objs)
    /\ LET after == RunCallbacks(Notifications(objs), objs,
                                 [stats |-> stats, target |-> target_object])
       IN /\ stats' = after.stats
          /\ target_object' = after.target
    /\ SetDetect(d, NextRead)
    /\ ev' = [kind |-> "frame", objs |-> objs, fired |-> Notifications(objs)]
    /\ UNCHANGED <<is_active, current_mode, target_selection_mode,
                   selected_target_type, is_detecting, detection_method,
                   detection_thread, is_tracking, tracking_thread, tracking_mode,
                   target_dog, params, pid_error_sum, pid_last_error, age, tthread,
                   call, sendAge>>
    /\ UNCHANGED <<limits, status, colVars, app_state, msgVars>>

\* _detect_by_color, lines 150-188: nothing without a target colour; else the
\* contours of area above 500, in the order found, each with the centre of
\* its bounding rectangle and min(area / 5000, 1.0) as confidence
DetectByColor(tc, cs) ==
    IF tc = "none" THEN << >>
    ELSE LET kept == SelectSeq(cs, LAMBDA c : c.area > ColorMinArea)
         IN [k \in 1..Len(kept) |->
                Obj("color_object", kept[k].x + kept[k].w \div 2,
                    kept[k].y + kept[k].h \div 2, kept[k].area,
                    Min((kept[k].area * 100) \div ColorFullArea, 100))]

\* set_color_target, lines 286-292
SetColorTarget ==
    /\ target_color' = "set"
    /\ ev' = NoEv
    /\ UNCHANGED <<fbVars, detVars, trkVars, dthread, tthread, call, sendAge>>
    /\ UNCHANGED <<limits, status, scene, app_state, msgVars>>

\* the camera's view changes: cv2.findContours will find the contours cs
CameraScene(cs) ==
    /\ scene' = cs
    /\ ev' = NoEv
    /\ UNCHANGED <<fbVars, detVars, trkVars, dthread, tthread, call, sendAge>>
    /\ UNCHANGED <<limits, status, target_color, app_state, msgVars>>

\* lines 112-122 with line 133: a frame handled by colour tracking
DetectColorFrame(d) ==
    /\ detection_method = "color_tracking"
    /\ DetectFrame(d, DetectByColor(target_color, scene))

\* lines 112-126 when a notification callback raises on a non-empty list:
\* _update_tracking has stored the list, the exception leaves the while loop
\* for the except clause at line 124 and the thread ends, is_detecting as is
DetectCallbackRaises(d, objs) ==
    /\ dthread[d].pc = "read"
    /\ objs # << >>
    /\ Len(tracking_history) < limits.frames
    /\ tracked_objects' = objs
    /\ tracking_history' = AppendHistory(tracking_history, objs)
    /\ SetDetect(d, NoThread)
    /\ ev' = [kind |-> "frame_error", objs |-> objs]
    /\ UNCHANGED <<fbVars, is_detecting, detection_method, detection_thread, trkVars,
                   tthread, call, sendAge>>
    /\ UNCHANGED <<limits, status, colVars, app_state, msgVars>>

-----------------------------------------------------------------------------
(* Time.  Computation takes no time: time passes, by limits.step ticks,     *)
(* only when every thread is asleep, blocked in the transport or the        *)
(* camera, or has ended, and the caller is between calls or blocked.  A     *)
(* call of the transport or of the camera takes any time.                   *)

DecBy(m, n) == IF m > n THEN m - n ELSE 0

InFlight(th) == th.pc \in {"call", "pause"}

PassTicks(n) ==
    /\ age' = Sat(age + n)
    /\ sendAge' = Sat(sendAge + n)
    /\ tthread' = [t \in TrackIds |->
                     [tthread[t] EXCEPT !.wake = DecBy(@, n),
                                        !.lag = IF InFlight(tthread[t])
                                                THEN Sat(@ + n) ELSE @]]
    /\ dthread' = [d \in DetectIds |-> [dthread[d] EXCEPT !.wake = DecBy(@, n)]]
    /\ call' = [call EXCEPT !.join = DecBy(@, n)]
    /\ ev' = NoEv
    /\ UNCHANGED <<fbVars, detVars, is_tracking, tracking_thread, target_object,
                   tracking_mode, target_dog, params, pid_error_sum, pid_last_error>>
    /\ UNCHANGED <<limits, status, colVars, app_state, msgVars>>

Pass == ~Ready /\ PassTicks(limits.step)

-----------------------------------------------------------------------------
(* Direct use of the controller: TrackingController.start_tracking called   *)
(* on FollowingBehavior.tracking_controller, outside start_following        *)

DirectStartTracking(dog, mode) ==
    /\ call.pc = "idle"
    /\ IF is_tracking
       THEN /\ ev' = [kind |-> "return", op |-> "start_tracking", value |-> FALSE,
                      why |-> "already_tracking", dog |-> dog, mode |-> mode]
            /\ UNCHANGED <<trkVars, tthread>>
       ELSE /\ StartTracking(dog, mode)
            /\ ev' = [kind |-> "return", op |-> "start_tracking", value |-> TRUE,
                      why |-> "started", dog |-> dog, mode |-> mode]
            /\ UNCHANGED <<target_object, params, age>>
    /\ UNCHANGED <<fbVars, detVars, dthread, call, sendAge>>
    /\ UNCHANGED <<limits, status, colVars, app_state, msgVars>>

\* switch_tracking_mode without line 195: the controller keeps its mode
SwitchTrackingModeBehaviourOnly(new_mode) ==
    /\ call.pc = "idle"
    /\ current_mode' = IF is_active THEN new_mode ELSE current_mode
    /\ ev' = [kind |-> "switch", mode |-> new_mode, active |-> is_active]
    /\ UNCHANGED <<is_active, target_selection_mode, selected_target_type, stats,
                   detVars, trkVars, dthread, tthread, call, sendAge>>
    /\ UNCHANGED <<limits, status, colVars, app_state, msgVars>>

\* FollowingBehavior.switch_tracking_mode, lines 191-196
SwitchTrackingMode(new_mode) ==
    /\ call.pc = "idle"
    /\ IF is_active
       THEN current_mode' = new_mode /\ tracking_mode' = new_mode
       ELSE UNCHANGED <<current_mode, tracking_mode>>
    /\ ev' = [kind |-> "switch", mode |-> new_mode, active |-> is_active]
    /\ UNCHANGED <<is_active, target_selection_mode, selected_target_type, stats,
                   detVars, is_tracking, tracking_thread, target_object, target_dog,
                   params, pid_error_sum, pid_last_error, age, dthread, tthread,
                   call, sendAge>>
    /\ UNCHANGED <<limits, status, colVars, app_state, msgVars>>

\* FollowingBehavior.set_target_selection_mode, lines 198-203; target_type
\* "none" is the default argument None
SetTargetSelectionMode(mode, ty) ==
    /\ call.pc = "idle"
    /\ target_selection_mode' = mode
    /\ selected_target_type' = IF ty # "none" THEN ty ELSE selected_target_type
    /\ ev' = NoEv
    /\ UNCHANGED <<is_active, current_mode, stats, detVars, trkVars, dthread, tthread,
                   call, sendAge>>
    /\ UNCHANGED <<limits, status, colVars, app_state, msgVars>>

\* get_tracking_status, tracking_controller.py lines 298-306; the clock value
\* last_command_time is left out
TrackingStatus ==
    [is_tracking |-> is_tracking, target_dog |-> target_dog,
     tracking_mode |-> tracking_mode, has_target |-> target_object # NoneObj]

\* the entries of the dictionary built at lines 207-223, the statistics as
\* they are when it is built
StatusValue ==
    [is_active |-> is_active, current_mode |-> current_mode,
     target_selection_mode |-> target_selection_mode,
     selected_target_type |-> selected_target_type,
     detector |-> [is_detecting |-> is_detecting,
                   detection_method |-> detection_method,
                   tracked_objects_count |-> Len(tracked_objects)],
     tracking |-> TrackingStatus,
     statistics |-> stats]

\* FollowingBehavior.get_current_status, lines 205-223
GetCurrentStatus ==
    /\ call.pc = "idle"
    /\ status' = [taken |-> TRUE, value |-> StatusValue]
    /\ ev' = [kind |-> "status"]
    /\ UNCHANGED <<fbVars, detVars, trkVars, dthread, tthread, call, sendAge>>
    /\ UNCHANGED <<limits, colVars, app_state, msgVars>>

\* what the caller reads in the returned dictionary now: line 222 stores the
\* dictionary self.stats itself under 'statistics', not a copy of it, and the
\* callbacks and start_following update that dictionary in place
StatusSeen == [status.value EXCEPT !.statistics = stats]

\* the keyword parameters of TrackingController.set_tracking_parameters
AcceptedParameters == {"center_threshold", "distance_threshold", "command_interval"}

\* FollowingBehavior.configure_tracking_parameters(name=value), lines 233-235:
\* the keyword is passed on to set_tracking_parameters, lines 274-285, which
\* raises TypeError for a keyword that is not one of its parameters
ConfigureTrackingParameters(name, value) ==
    /\ call.pc = "idle"
    /\ IF name \in AcceptedParameters
       THEN /\ params' = [params EXCEPT ![name] = value]
            /\ ev' = [kind |-> "configure", name |-> name, value |-> value,
                      raised |-> FALSE]
       ELSE /\ UNCHANGED params
            /\ ev' = [kind |-> "configure", name |-> name, value |-> value,
                      raised |-> TRUE]
    /\ UNCHANGED <<fbVars, detVars, is_tracking, tracking_thread, target_object,
                   tracking_mode, target_dog, pid_error_sum, pid_last_error, age,
                   dthread, tthread, call, sendAge>>
    /\ UNCHANGED <<limits, status, colVars, app_state, msgVars>>

(* Direct use of the detector: ObjectDetector.start_detection called on     *)
(* FollowingBehavior.object_detector                                        *)

\* start_detection with line 70 moved before the check of line 66
DirectStartDetectionMethodFirst(method) ==
    /\ call.pc = "idle"
    /\ detection_method' = method
    /\ IF is_detecting
       THEN /\ ev' = [kind |-> "return", op |-> "start_detection", value |-> FALSE,
                      method |-> method]
            /\ UNCHANGED <<is_detecting, detection_thread, dthread>>
       ELSE /\ FreeDetect # {}
            /\ is_detecting' = TRUE
            /\ detection_thread' = LowestOf(FreeDetect)
            /\ dthread' = [dthread EXCEPT ![LowestOf(FreeDetect)] =
                                             [pc |-> "open", wake |-> 0]]
            /\ ev' = [kind |-> "return", op |-> "start_detection", value |-> TRUE,
                      method |-> method]
    /\ UNCHANGED <<fbVars, tracked_objects, tracking_history, trkVars, tthread, call,
                   sendAge>>
    /\ UNCHANGED <<limits, status, colVars, app_state, msgVars>>

\* start_detection, lines 66-79
DirectStartDetection(method) ==
    /\ call.pc = "idle"
    /\ IF is_detecting
       THEN /\ ev' = [kind |-> "return", op |-> "start_detection", value |-> FALSE,
                      method |-> method]
            /\ UNCHANGED <<detVars, dthread>>
       ELSE /\ StartDetection(method)
            /\ ev' = [kind |-> "return", op |-> "start_detection", value |-> TRUE,
                      method |-> method]
            /\ UNCHANGED <<tracked_objects, tracking_history>>
    /\ UNCHANGED <<fbVars, trkVars, tthread, call, sendAge>>
    /\ UNCHANGED <<limits, status, colVars, app_state, msgVars>>

\* stop_detection firing on_object_lost as it stops
DirectStopDetectionNotifies ==
    /\ call.pc = "idle"
    /\ BeginStopDetection("stop_detection")
    /\ stats' = OnObjectLost([stats |-> stats, target |-> target_object]).stats
    /\ ev' = NoEv
    /\ UNCHANGED <<is_active, current_mode, target_selection_mode,
                   selected_target_type, detection_method, detection_thread,
                   tracked_objects, tracking_history, trkVars, dthread, tthread, sendAge>>
    /\ UNCHANGED <<limits, status, colVars, app_state, msgVars>>

\* stop_detection, lines 81-88, called on FollowingBehavior.object_detector;
\* the call returns from JoinDetection
DirectStopDetection ==
    /\ call.pc = "idle"
    /\ BeginStopDetection("stop_detection")
    /\ ev' = NoEv
    /\ UNCHANGED <<fbVars, detection_method, detection_thread, tracked_objects,
                   tracking_history, trkVars, dthread, tthread, sendAge>>
    /\ UNCHANGED <<limits, status, colVars, app_state, msgVars>>

-----------------------------------------------------------------------------
(* The web layer: the routes /api/following/start and /api/following/stop   *)
(* of enhanced_dog_controller.py.  A route calls FollowingBehavior and goes  *)
(* on when the call has returned; nothing else runs between the return and  *)
(* the route's next statement.                                              *)

\* following_command_callback is send_dog_command, which catches every
\* exception and returns True or False (utils/helpers.py, lines 57-91)
WebOutcomes == {"ok", "fail"}

\* start_following or stop_following has returned to its route
ResponsePending ==
    ev.kind = "return" /\ ev.op \in {"start_following", "stop_following"}

Response(route, st) == [kind |-> "response", route |-> route, status |-> st]

\* start_object_following, lines 327-345, and the refusal of lines 361-366
RouteStartFollowing(dog, method) ==
    /\ call.pc = "idle" /\ ~ResponsePending
    /\ IF ~app_state.following_active
       THEN StartFollowing(dog, method, "follow")
       ELSE /\ ev' = Response("start", "info")
            /\ UNCHANGED <<fbVars, detVars, trkVars, dthread, tthread, call, sendAge,
                           limits, status, colVars, app_state, msgVars>>

\* start_object_following, lines 347-360
RouteStartResponse ==
    /\ call.pc = "idle"
    /\ ev.kind = "return" /\ ev.op = "start_following"
    /\ app_state' = IF ev.value THEN [app_state EXCEPT !.following_active = TRUE]
                    ELSE app_state
    /\ ev' = Response("start", IF ev.value THEN "success" ELSE "error")
    /\ UNCHANGED <<fbVars, detVars, trkVars, dthread, tthread, call, sendAge, limits,
                   status, colVars, msgVars>>

\* stop_object_following, lines 377-378, and the refusal of lines 386-391
RouteStopFollowing ==
    /\ call.pc = "idle" /\ ~ResponsePending
    /\ IF app_state.following_active
       THEN StopFollowing
       ELSE /\ ev' = Response("stop", "info")
            /\ UNCHANGED <<fbVars, detVars, trkVars, dthread, tthread, call, sendAge,
                           limits, status, colVars, app_state, msgVars>>

\* stop_object_following without line 379: the flag is left as it is
RouteStopResponseKeepsFlag ==
    /\ call.pc = "idle"
    /\ ev.kind = "return" /\ ev.op = "stop_following"
    /\ ev' = Response("stop", "success")
    /\ UNCHANGED <<fbVars, detVars, trkVars, dthread, tthread, call, sendAge, limits,
                   status, colVars, app_state, msgVars>>

\* stop_object_following, lines 379-385
RouteStopResponse ==
    /\ call.pc = "idle"
    /\ ev.kind = "return" /\ ev.op = "stop_following"
    /\ app_state' = [app_state EXCEPT !.following_active = FALSE]
    /\ ev' = Response("stop", "success")
    /\ UNCHANGED <<fbVars, detVars, trkVars, dthread, tthread, call, sendAge, limits,
                   status, colVars, msgVars>>

-----------------------------------------------------------------------------
(* The message queue between the robots: MessageHandler                     *)

Senders == Dogs \cup {"controller"}

\* send_message, lines 26-33: the message built; the timestamp stands for id
\* and timestamp, both read from the clock
Message(from_dog, to_dog, message_type, now) ==
    [from |-> from_dog, to |-> to_dog, type |-> message_type, timestamp |-> now]

AddressedTo(q, d) == SelectSeq(q, LAMBDA msg : msg.to = d)
NotAddressedTo(q, d) == SelectSeq(q, LAMBDA msg : msg.to # d)

\* send_message, lines 23-41
SendMessage(from_dog, to_dog, message_type) ==
    /\ sent < MaxMessages
    /\ message_queue' = Append(message_queue,
                               Message(from_dog, to_dog, message_type, sent + 1))
    /\ sent' = sent + 1
    /\ ev' = [kind |-> "return", op |-> "send_message", value |-> TRUE]
    /\ UNCHANGED <<fbVars, detVars, trkVars, dthread, tthread, call, sendAge, limits,
                   status, colVars, app_state, received>>

\* get_messages without line 47: the messages returned stay queued
GetMessagesKeepsQueue(for_dog) ==
    /\ received' = [received EXCEPT ![for_dog] = @ \o AddressedTo(message_queue, for_dog)]
    /\ ev' = [kind |-> "return", op |-> "get_messages", for |-> for_dog,
              value |-> AddressedTo(message_queue, for_dog)]
    /\ UNCHANGED <<fbVars, detVars, trkVars, dthread, tthread, call, sendAge, limits,
                   status, colVars, app_state, message_queue, sent>>

\* get_messages, lines 43-48
GetMessages(for_dog) ==
    /\ received' = [received EXCEPT ![for_dog] = @ \o AddressedTo(message_queue, for_dog)]
    /\ message_queue' = NotAddressedTo(message_queue, for_dog)
    /\ ev' = [kind |-> "return", op |-> "get_messages", for |-> for_dog,
              value |-> AddressedTo(message_queue, for_dog)]
    /\ UNCHANGED <<fbVars, detVars, trkVars, dthread, tthread, call, sendAge, limits,
                   status, colVars, app_state, sent>>

\* broadcast_message, lines 67-68: the robots of dog_status other than the
\* sender, 'tom' before 'jerry'
OtherDogs(from_dog) == SelectSeq(<<"tom", "jerry">>, LAMBDA dog : dog # from_dog)

\* broadcast_message, lines 64-71: one send_message for each of them
BroadcastMessage(from_dog, message_type) ==
    /\ sent + Len(OtherDogs(from_dog)) <= MaxMessages
    /\ message_queue' =
          message_queue \o [k \in 1..Len(OtherDogs(from_dog)) |->
                              Message(from_dog, OtherDogs(from_dog)[k], message_type,
                                      sent + k)]
    /\ sent' = sent + Len(OtherDogs(from_dog))
    /\ ev' = [kind |-> "return", op |-> "broadcast_message", value |-> TRUE]
    /\ UNCHANGED <<fbVars, detVars, trkVars, dthread, tthread, call, sendAge, limits,
                   status, colVars, app_state, received>>

-----------------------------------------------------------------------------
(* The specifications *)

Frames == {<< >>, <<FaceFarRight, ColorNearLeft>>}

\* the calls of FollowingBehavior's API, with their steps
ApiStep(dogs, methods, modes) ==
    \/ \E dog \in dogs, method \in methods, mode \in modes :
         StartFollowing(dog, method, mode)
    \/ StartFollowingTrack
    \/ StartFollowingCommit
    \/ StopFollowing
    \/ EmergencyStop
    \/ JoinTracking
    \/ \E outcome \in TransportOutcomes : StopCallReturn(outcome)
    \/ JoinDetection

\* the steps of the control cycles in the modes without PID state
TrackStep ==
    \E t \in TrackIds :
       \/ TrackLoop(t)
       \/ TrackMetrics(t)
       \/ \E outcome \in TransportOutcomes : TrackCallReturn(t, outcome)
       \/ TrackPause(t)

DetectStep(frames) ==
    \E d \in DetectIds :
       \/ \E opened \in BOOLEAN : DetectOpen(d, opened)
       \/ DetectNoFrame(d)
       \/ \E objs \in frames : DetectFrame(d, objs)
       \/ DetectWake(d)

(* Spec: one FollowingBehavior driven through its own API, a second control *)
(* cycle may be alive beside the first, time passes in steps of 2 s.        *)
Next ==
    \/ ApiStep({"tom"}, {"face_detection"}, {"follow"})
    \/ TrackStep
    \/ DetectStep(Frames)
    \/ Pass

Init ==
    InitObjects
    /\ limits = Limits(MaxTrackThreads, MaxDetectThreads, MaxFrames, JoinTimeout, 0)

Spec == Init /\ [][Next]_vars

(* SpecDirect: one cycle of each kind, and the detector and the controller   *)
(* may also be started directly.                                            *)
NextDirect ==
    \/ ApiStep({"tom"}, {"face_detection"}, {"follow"})
    \/ \E mode \in {"follow", "observe"} : DirectStartTracking("jerry", mode)
    \/ \E method \in {"color_tracking", "template_matching"} :
         DirectStartDetection(method)
    \/ TrackStep
    \/ DetectStep(Frames)
    \/ Pass

InitDirect ==
    InitObjects
    /\ limits = Limits(SoloTrackThreads, MaxDetectThreads, SoloFrames, JoinTimeout, 0)

SpecDirect == InitDirect /\ [][NextDirect]_vars

(* SpecArgs: one cycle of each kind, every argument of start_following.     *)
NextArgs ==
    \/ ApiStep(Dogs, {"color_tracking", "face_detection"}, {"follow", "observe"})
    \/ TrackStep
    \/ DetectStep(Frames)
    \/ Pass

InitArgs ==
    InitObjects
    /\ limits = Limits(SoloTrackThreads, MaxDetectThreads, SoloFrames, JoinTimeout, 0)

SpecArgs == InitArgs /\ [][NextArgs]_vars

(* SpecPid: one cycle of each kind in maintain_distance mode, with a far     *)
(* face in view, and the controller may also be started directly.           *)
PidFrames == {<<FaceFarRight>>}

NextPid ==
    \/ ApiStep({"tom"}, {"face_detection"}, {"maintain_distance"})
    \/ \E mode \in {"follow", "maintain_distance"} : DirectStartTracking("jerry", mode)
    \/ TrackStep
    \/ \E t \in TrackIds : TrackOrient(t)
    \/ DetectStep(PidFrames)
    \/ Pass

InitPid ==
    InitObjects
    /\ limits = Limits(SoloTrackThreads, MaxDetectThreads, SoloFrames, JoinTimeout,
                       MaxPidSum)

SpecPid == InitPid /\ [][NextPid]_vars

(* SpecSearch: one session in follow mode, a target that comes and goes,    *)
(* time passes tick by tick.                                                *)
NextSearch ==
    \/ StartFollowing("tom", "face_detection", "follow")
    \/ StartFollowingTrack
    \/ StartFollowingCommit
    \/ TrackStep
    \/ DetectStep({<< >>, <<FaceCentered>>})
    \/ Pass

InitSearch ==
    InitObjects
    /\ limits = Limits(SoloTrackThreads, MaxDetectThreads, SearchFrames, TickSleep, 0)

SpecSearch == InitSearch /\ [][NextSearch]_vars

(* SpecSelect: the detector alone, started directly, delivers one list of   *)
(* detections under every selection mode and preferred type; the callbacks  *)
(* of FollowingBehavior select the target.                                  *)
SelectObjects ==
    {FaceCentered, FaceLeftOfCentre, FaceRightOfCentre, FaceFarRight, ColorNearLeft,
     ColorHugeLeft, TemplateStrong, TemplateWeak, TemplateSmall}

SelectLists == UNION {[1..n -> SelectObjects] : n \in 0..MaxListLen}

SelectionModes == {"automatic", "manual"}
TargetTypes == {"any", "face", "color_object", "template_match"}

NextSelect ==
    \/ \E mode \in SelectionModes, ty \in TargetTypes \cup {"none"} :
         SetTargetSelectionMode(mode, ty)
    \/ DirectStartDetection("template_matching")
    \/ DetectStep(SelectLists)
    \/ Pass

InitSelect ==
    InitObjects
    /\ limits = Limits(SoloTrackThreads, MaxDetectThreads, SoloFrames, JoinTimeout, 0)

SpecSelect == InitSelect /\ [][NextSelect]_vars

(* SpecSteer: one control cycle in follow, observe or approach mode on one  *)
(* target of every kind of position, time passes tick by tick.              *)
SteerFrames ==
    {<<FaceTiny>>, <<FaceFarRight>>, <<FaceNearLeft>>, <<FaceCentered>>,
     <<FaceMidRight>>, <<FaceMidLeft>>, <<FaceAtThreshold>>, <<FaceNearCentred>>,
     <<FaceCentredSmall>>}

NextSteer ==
    \/ \E mode \in {"follow", "observe", "approach"} :
         StartFollowing("tom", "face_detection", mode)
    \/ StartFollowingTrack
    \/ StartFollowingCommit
    \/ TrackStep
    \/ DetectStep(SteerFrames)
    \/ Pass

InitSteer ==
    InitObjects
    /\ limits = Limits(SoloTrackThreads, MaxDetectThreads, SoloFrames, TickSleep, 0)

SpecSteer == InitSteer /\ [][NextSteer]_vars

(* SpecTune: one control cycle in follow mode on one target while the       *)
(* parameters are configured, each to one value other than its default.     *)
TunableParameters ==
    {"center_threshold", "distance_threshold", "max_distance", "command_interval",
     "pid_kp", "pid_ki", "pid_kd"}

TunedParams == [center_threshold |-> 950, distance_threshold |-> 600,
                max_distance |-> 500, command_interval |-> 2,
                pid_kp |-> 40, pid_ki |-> 4, pid_kd |-> 2]

NextTune ==
    \/ StartFollowing("tom", "face_detection", "follow")
    \/ StartFollowingTrack
    \/ StartFollowingCommit
    \/ \E name \in TunableParameters : ConfigureTrackingParameters(name, TunedParams[name])
    \/ TrackStep
    \/ DetectStep({<<FaceMidRight>>})
    \/ Pass

InitTune ==
    InitObjects
    /\ limits = Limits(SoloTrackThreads, MaxDetectThreads, SoloFrames, TickSleep, 0)

SpecTune == InitTune /\ [][NextTune]_vars

(* SpecFaults: sessions started and stopped through the API while frame     *)
(* reads fail, the transport fails or raises, and a notification callback   *)
(* raises.                                                                  *)
NextFaults ==
    \/ ApiStep({"tom"}, {"face_detection"}, {"follow"})
    \/ TrackStep
    \/ DetectStep(Frames)
    \/ \E d \in DetectIds, objs \in Frames : DetectCallbackRaises(d, objs)
    \/ Pass

InitFaults ==
    InitObjects
    /\ limits = Limits(SoloTrackThreads, MaxDetectThreads, SoloFrames, JoinTimeout, 0)

SpecFaults == InitFaults /\ [][NextFaults]_vars

(* SpecStatus: sessions started and stopped through the API, the status     *)
(* read between the calls.                                                  *)
NextStatus ==
    \/ ApiStep({"tom"}, {"face_detection"}, {"follow"})
    \/ GetCurrentStatus
    \/ TrackStep
    \/ DetectStep(Frames)
    \/ Pass

InitStatus ==
    InitObjects
    /\ limits = Limits(SoloTrackThreads, MaxDetectThreads, SoloFrames, JoinTimeout, 0)

SpecStatus == InitStatus /\ [][NextStatus]_vars

(* SpecHistory: the detector alone, started directly, after it has handled  *)
(* n frames, the first k of them empty and the others with one face; it     *)
(* goes on with empty frames and frames with one face up to                 *)
(* MaxHistoryFrames frames in all.                                          *)
WarmHistory(n, k) == [i \in 1..n |-> IF i <= k THEN << >> ELSE <<FaceCentered>>]

FramesSeen == stats.total_detections + stats.lost_target_count

NextHistory ==
    \/ \E d \in DetectIds : DetectNoFrame(d)
    \/ \E d \in DetectIds : DetectWake(d)
    \/ /\ FramesSeen < MaxHistoryFrames
       /\ \E d \in DetectIds, objs \in {<< >>, <<FaceCentered>>} : DetectFrame(d, objs)
    \/ Pass

InitHistory ==
    \E n \in (HistoryCap - 1)..HistoryCap, k \in 0..HistoryCap :
       /\ k <= n
       /\ status = NoStatus
       /\ target_color = "none"
       /\ scene = << >>
       /\ app_state = AppState
       /\ message_queue = << >>
       /\ received = [d \in Recipients |-> << >>]
       /\ sent = 0
       /\ is_active = FALSE
       /\ current_mode = "follow"
       /\ target_selection_mode = "automatic"
       /\ selected_target_type = "face"
       /\ stats = [NoStats EXCEPT !.total_detections = n - k, !.lost_target_count = k]
       /\ is_detecting = TRUE
       /\ detection_method = "face_detection"
       /\ detection_thread = 1
       /\ tracking_history = WarmHistory(n, k)
       /\ tracked_objects = WarmHistory(n, k)[n]
       /\ is_tracking = FALSE
       /\ tracking_thread = 0
       /\ target_object = IF k < n THEN FaceCentered ELSE NoneObj
       /\ tracking_mode = "follow"
       /\ target_dog = "tom"
       /\ params = DefaultParams
       /\ pid_error_sum = 0
       /\ pid_last_error = 0
       /\ age = AgeCap
       /\ dthread = [d \in DetectIds |-> IF d = 1 THEN NextRead ELSE NoThread]
       /\ tthread = [t \in TrackIds |-> NoTrack]
       /\ call = IdleCall
       /\ ev = NoEv
       /\ sendAge = AgeCap
       /\ limits = Limits(SoloTrackThreads, MaxDetectThreads, HistoryCap + 1,
                          JoinTimeout, 0)

SpecHistory == InitHistory /\ [][NextHistory]_vars

(* SpecDetector: the detector alone, started and stopped directly.          *)
NextDetector ==
    \/ \E method \in {"color_tracking", "face_detection"} : DirectStartDetection(method)
    \/ DirectStopDetection
    \/ JoinDetection
    \/ DetectStep(Frames)
    \/ Pass

InitDetector ==
    InitObjects
    /\ limits = Limits(SoloTrackThreads, MaxDetectThreads, MaxFrames, JoinTimeout, 0)

SpecDetector == InitDetector /\ [][NextDetector]_vars

(* SpecColor: the detector alone in colour tracking, the camera's view and  *)
(* the target colour change between the frames.                             *)
Contour(x, y, w, h, a) == [x |-> x, y |-> y, w |-> w, h |-> h, area |-> a]

\* bounding rectangles whose centres lie at whole distances from the centre
\* of the frame
Contours == {Contour(305, 230, 30, 20, 450), Contour(338, 270, 25, 20, 500),
             Contour(245, 150, 30, 20, 550), Contour(295, 110, 50, 60, 2500),
             Contour(390, 215, 100, 50, 5000), Contour(150, 40, 100, 80, 7500)}

Scenes == {cs \in UNION {[1..n -> Contours] : n \in 0..MaxContours} : TRUE}

NextColor ==
    \/ DirectStartDetection("color_tracking")
    \/ SetColorTarget
    \/ \E cs \in Scenes : CameraScene(cs)
    \/ \E d \in DetectIds, opened \in BOOLEAN : DetectOpen(d, opened)
    \/ \E d \in DetectIds : DetectNoFrame(d)
    \/ \E d \in DetectIds : DetectWake(d)
    \/ \E d \in DetectIds : DetectColorFrame(d)
    \/ Pass

InitColor ==
    InitObjects
    /\ limits = Limits(SoloTrackThreads, MaxDetectThreads, MaxFrames, JoinTimeout, 0)

SpecColor == InitColor /\ [][NextColor]_vars

(* SpecTarget: one session, two frames of up to two detections each, the    *)
(* selection mode and the preferred type change between the frames.         *)
TargetLists ==
    UNION {[1..n -> {FaceCentered, ColorNearLeft, TemplateWeak}] :
             n \in 0..MaxTargets}

NextTarget ==
    \/ StartFollowing("tom", "face_detection", "follow")
    \/ StartFollowingTrack
    \/ StartFollowingCommit
    \/ \E mode \in SelectionModes, ty \in TargetTypes \cup {"none"} :
         SetTargetSelectionMode(mode, ty)
    \/ TrackStep
    \/ DetectStep(TargetLists)
    \/ Pass

InitTarget ==
    InitObjects
    /\ limits = Limits(SoloTrackThreads, MaxDetectThreads, MaxFrames, JoinTimeout, 0)

SpecTarget == InitTarget /\ [][NextTarget]_vars

(* SpecMode: sessions in follow and observe mode, the mode switched         *)
(* between the calls.                                                       *)
NextMode ==
    \/ ApiStep({"tom"}, {"face_detection"}, {"follow", "observe"})
    \/ \E mode \in {"follow", "observe"} : SwitchTrackingMode(mode)
    \/ TrackStep
    \/ DetectStep(Frames)
    \/ Pass

InitMode ==
    InitObjects
    /\ limits = Limits(SoloTrackThreads, MaxDetectThreads, SoloFrames, JoinTimeout, 0)

SpecMode == InitMode /\ [][NextMode]_vars

(* SpecWeb: sessions started and stopped through the two routes, one        *)
(* request at a time, the transport succeeding or failing.                  *)
WebCallStep ==
    \/ StartFollowingTrack
    \/ StartFollowingCommit
    \/ JoinTracking
    \/ \E outcome \in WebOutcomes : StopCallReturn(outcome)
    \/ JoinDetection

WebTrackStep ==
    /\ ~ResponsePending
    /\ \E t \in TrackIds :
          \/ TrackLoop(t)
          \/ TrackMetrics(t)
          \/ \E outcome \in WebOutcomes : TrackCallReturn(t, outcome)
          \/ TrackPause(t)

WebDetectStep ==
    /\ ~ResponsePending
    /\ DetectStep(Frames)

WebPass == ~ResponsePending /\ Pass

NextWeb ==
    \/ \E dog \in Dogs, method \in {"face_detection", "color_tracking"} :
         RouteStartFollowing(dog, method)
    \/ RouteStartResponse
    \/ RouteStopFollowing
    \/ RouteStopResponse
    \/ WebCallStep
    \/ WebTrackStep
    \/ WebDetectStep
    \/ WebPass

InitWeb ==
    InitObjects
    /\ limits = Limits(SoloTrackThreads, MaxDetectThreads, SoloFrames, JoinTimeout, 0)

SpecWeb == InitWeb /\ [][NextWeb]_vars

(* SpecMessages: the message handler alone, up to MaxMessages messages sent *)
(* and broadcast in every order, the queues read in between.                *)
NextMessages ==
    \/ \E from_dog \in Senders, to_dog \in Recipients :
         SendMessage(from_dog, to_dog, "sync_command")
    \/ \E from_dog \in Senders : BroadcastMessage(from_dog, "coordinate_action")
    \/ \E for_dog \in Recipients : GetMessages(for_dog)

InitMessages ==
    InitObjects
    /\ limits = Limits(SoloTrackThreads, MaxDetectThreads, SoloFrames, JoinTimeout, 0)

SpecMessages == InitMessages /\ [][NextMessages]_vars

(* SpecRate: one control cycle in every mode, time passes tick by tick.     *)
RateFrames == {<< >>, <<FaceCentered>>, <<FaceFarRight, ColorNearLeft>>}

NextRate ==
    \/ \E mode \in TrackingModes : StartFollowing("tom", "face_detection", mode)
    \/ StartFollowingTrack
    \/ StartFollowingCommit
    \/ TrackStep
    \/ \E t \in TrackIds : TrackOrient(t)
    \/ DetectStep(RateFrames)
    \/ Pass

InitRate ==
    InitObjects
    /\ limits = Limits(SoloTrackThreads, MaxDetectThreads, MaxFrames, TickSleep, MaxPidSum)

SpecRate == InitRate /\ [][NextRate]_vars

-----------------------------------------------------------------------------
(* Properties *)

NoCallInProgress == call.pc = "idle"

ReturnedFrom(op) == ev.kind = "return" /\ ev.op = op

LiveTrack == {t \in TrackIds : tthread[t].pc # "none"}
LiveDetect == {d \in DetectIds : dthread[d].pc # "none"}

\* C1: when start_following started the detector and start_tracking then
\* failed, start_following returns False with the detector stopped again
\* (is_detecting false) and is_active false.
C1_FailedStartUnwinds ==
    (ReturnedFrom("start_following") /\ ev.why = "tracking_failed")
        => (ev.value = FALSE /\ ~is_detecting /\ ~is_active)

\* C1, the case: start_following has just returned after start_tracking
\* refused because the controller was already tracking
C1_Witness ==
    /\ ReturnedFrom("start_following") /\ ev.why = "tracking_failed"
    /\ is_tracking /\ TrackAlive(tracking_thread)
    /\ detection_method = "face_detection"

\* C2: start_following called while a session is active returns False and
\* changes nothing of the session: is_active, mode, statistics, the detector
\* and its cycle, the controller, its target and its cycle.
C2_SecondStartChangesNothing ==
    [][(NoCallInProgress /\ is_active /\ ev'.kind = "return"
        /\ ev'.op = "start_following")
       => (ev'.value = FALSE
           /\ UNCHANGED <<fbVars, detVars, trkVars, dthread, tthread, call>>)]_vars

\* C2, the case: a second start_following with other arguments was refused
\* while both cycles of the first session run with a target
C2_Witness ==
    /\ ReturnedFrom("start_following") /\ ev.why = "already_active"
    /\ ev.dog # target_dog /\ ev.method # detection_method /\ ev.mode # tracking_mode
    /\ is_active /\ TrackAlive(tracking_thread) /\ DetectAlive(detection_thread)
    /\ target_object # NoneObj

\* C3: whenever no start_following, stop_following or emergency_stop call is
\* in progress, is_active, is_detecting and is_tracking have the same value.
C3_FlagsInLockstep ==
    NoCallInProgress => (is_active = is_detecting /\ is_detecting = is_tracking)

\* C4: at most one detection cycle and at most one control cycle are
\* executing at any time.
C4_AtMostOneCycleOfEachKind ==
    Cardinality(LiveTrack) <= 1 /\ Cardinality(LiveDetect) <= 1

C6_NoCommandAfterStop ==
    (ev.kind = "dispatch" /\ ev.src \in {"tick", "search"})
        => (is_tracking \/ call.pc \in {"join_tracking", "stop_call"})

\* C7: emergency_stop always leaves is_active false when it returns.
C7_EmergencyStopDeactivates ==
    ReturnedFrom("emergency_stop") => ~is_active

\* C8: when stopping the TrackingController fails during emergency_stop, the
\* ObjectDetector is still stopped: is_detecting is false at the return.
C8_EmergencyStopStopsDetector ==
    (ReturnedFrom("emergency_stop") /\ ev.why = "exception") => ~is_detecting

\* C9: when the detection cycle has ended because the camera could not be
\* opened, is_detecting is false: outside a call, is_detecting implies that
\* the detection thread is alive.
C9_FlagReflectsCycle ==
    (NoCallInProgress /\ is_detecting) => DetectAlive(detection_thread)

\* C10: when stop_following returns, is_tracking, is_detecting and is_active
\* are all false.
C10_StopFollowingStopsBoth ==
    ReturnedFrom("stop_following") => (~is_tracking /\ ~is_detecting /\ ~is_active)

\* C11: stop_following called while is_active is false returns at once: no
\* stop sequence is begun, no command is handed to the transport (sendAge is
\* not reset) and the detector, the controller, the statistics and both
\* cycles are unchanged.
C11_StopWhenInactiveIsNoOp ==
    [][(NoCallInProgress /\ ~is_active)
       => (/\ call'.op # "stop_following"
           /\ (ev'.kind = "return" /\ ev'.op = "stop_following")
                 => UNCHANGED <<fbVars, detVars, trkVars, dthread, tthread, call,
                                sendAge>>)]_vars

\* C11, the case: stop_following has returned as a no-op while the control
\* cycle of the stopped session was still alive
C11_Witness ==
    /\ ReturnedFrom("stop_following") /\ ev.why = "not_active"
    /\ ~is_active /\ LiveTrack # {}

\* C12: a completed frame cycle with a non-empty list fires on_object_detected
\* and on_tracking_update once each and not on_object_lost (one detection is
\* counted, no loss); with an empty list it fires on_object_lost once and
\* nothing else (one loss is counted, no detection).
C12_NotificationsOncePerFrame ==
    [][ev'.kind = "frame"
       => IF ev'.objs # << >>
          THEN /\ ev'.fired = <<"on_object_detected", "on_tracking_update">>
               /\ stats'.total_detections = stats.total_detections + 1
               /\ stats'.lost_target_count = stats.lost_target_count
          ELSE /\ ev'.fired = <<"on_object_lost">>
               /\ stats'.lost_target_count = stats.lost_target_count + 1
               /\ stats'.total_detections = stats.total_detections]_vars

\* C12, the case: an empty frame has been processed after a frame with
\* detections, in an active session
C12_Witness ==
    /\ ev.kind = "frame" /\ ev.objs = << >>
    /\ stats.total_detections = 1 /\ stats.lost_target_count = 1
    /\ is_active

\* C13: start_detection called while is_detecting returns False and leaves
\* the detector as it was (method, flag, thread, cycles); called while not
\* detecting it returns True with is_detecting set, the method stored and
\* exactly one new cycle, which has not yet opened the camera.
C13_StartDetectionGuard ==
    [][(ev'.kind = "return" /\ ev'.op = "start_detection")
       => IF is_detecting
          THEN ev'.value = FALSE /\ UNCHANGED <<detVars, dthread>>
          ELSE /\ ev'.value = TRUE
               /\ is_detecting' /\ detection_method' = ev'.method
               /\ detection_thread' \notin LiveDetect
               /\ LiveDetect' = LiveDetect \cup {detection_thread'}
               /\ dthread'[detection_thread'].pc = "open"
               /\ UNCHANGED <<tracked_objects, tracking_history>>]_vars

\* C13, the case: start_detection with another method was refused while the
\* cycle of a session was running
C13_Witness ==
    /\ ReturnedFrom("start_detection") /\ ev.value = FALSE
    /\ ev.method # detection_method
    /\ is_active /\ DetectAlive(detection_thread)

\* C14: start_tracking called while is_tracking returns False and leaves
\* target_dog, the mode, the PID accumulators and the cycle as they were;
\* called while idle it returns True with target_dog and mode set, both PID
\* accumulators 0, is_tracking set and one new control cycle.
C14_StartTrackingGuard ==
    [][(ev'.kind = "return" /\ ev'.op = "start_tracking")
       => IF is_tracking
          THEN /\ ev'.value = FALSE
               /\ UNCHANGED <<is_tracking, tracking_thread, target_dog, tracking_mode,
                              pid_error_sum, pid_last_error, tthread>>
          ELSE /\ ev'.value = TRUE
               /\ is_tracking'
               /\ target_dog' = ev'.dog /\ tracking_mode' = ev'.mode
               /\ pid_error_sum' = 0 /\ pid_last_error' = 0
               /\ tracking_thread' \notin LiveTrack
               /\ LiveTrack' = LiveTrack \cup {tracking_thread'}]_vars

\* C14, the case: start_tracking for another dog and mode was refused while
\* the controller was tracking with PID state accumulated
C14_Witness ==
    /\ ReturnedFrom("start_tracking") /\ ev.value = FALSE
    /\ ev.dog # target_dog /\ ev.mode # tracking_mode
    /\ is_tracking /\ pid_error_sum # 0 /\ pid_last_error # 0

Candidates(objs, ty) ==
    LET HasType(o) == o.type = ty
        matching == SelectSeq(objs, HasType)
    IN IF ty # "any" /\ matching # << >> THEN matching ELSE objs

\* the first element of `cands` whose score no other element exceeds
FirstMaximum(cands) ==
    cands[CHOOSE k \in 1..Len(cands) :
             /\ \A j \in 1..Len(cands) : Score(cands[j]) <= Score(cands[k])
             /\ \A j \in 1..(k - 1) : Score(cands[j]) < Score(cands[k])]

\* C16: in automatic mode the target selected from a non-empty list is the
\* candidate of maximum score, the first one in list order among candidates
\* of equal maximum score, the candidates being the detections of the
\* preferred type when one is configured and present, else the whole list.
C16_AutoSelectsFirstMaximum ==
    [][(ev'.kind = "frame" /\ ev'.objs # << >> /\ target_selection_mode = "automatic")
       => target_object' = FirstMaximum(Candidates(ev'.objs, selected_target_type))]_vars

\* C16, the case: with faces preferred, a list led by a colour object of
\* higher score and holding two faces of equal score gave the first face
C16_Witness ==
    /\ ev.kind = "frame"
    /\ ev.objs = <<ColorNearLeft, FaceLeftOfCentre, FaceRightOfCentre>>
    /\ target_selection_mode = "automatic" /\ selected_target_type = "face"
    /\ target_object = FaceLeftOfCentre

\* `a` is at least `b` in confidence, in capped area and in closeness to the
\* frame centre
AtLeastInEveryTerm(a, b) ==
    /\ a.conf >= b.conf
    /\ Min(a.area, 10000) >= Min(b.area, 10000)
    /\ CenterDistance(a) <= CenterDistance(b)

DifferOnlyInConfidence(a, b) ==
    /\ a.conf # b.conf
    /\ [a EXCEPT !.conf = b.conf] = b

\* C17: the score does not decrease when confidence, min(area, 10000) and
\* closeness to the frame centre do not decrease; of two detections that
\* differ only in confidence, automatic selection returns the one of higher
\* confidence, whichever comes first in the list.
C17_ScoreMonotoneHigherConfidenceWins ==
    [][(ev'.kind = "frame" /\ Len(ev'.objs) = 2 /\ target_selection_mode = "automatic")
       => LET a == ev'.objs[1]
              b == ev'.objs[2]
          IN /\ AtLeastInEveryTerm(a, b) => Score(a) >= Score(b)
             /\ AtLeastInEveryTerm(b, a) => Score(b) >= Score(a)
             /\ DifferOnlyInConfidence(a, b)
                => target_object' = IF a.conf > b.conf THEN a ELSE b]_vars

\* C17, the case: the detection of higher confidence came second and was
\* selected
C17_Witness ==
    /\ ev.kind = "frame"
    /\ ev.objs = <<TemplateWeak, TemplateStrong>>
    /\ target_selection_mode = "automatic"
    /\ target_object = TemplateStrong

\* the positions of `objs` that hold a detection of type `ty`
PositionsOfType(objs, ty) == {k \in 1..Len(objs) : objs[k].type = ty}

\* C18: in manual mode the target selected from a list is its first
\* detection of the configured type; if no detection has that type, the
\* first detection of the list; if the list is empty, none.
C18_ManualSelectsFirstOfType ==
    [][(ev'.kind = "frame" /\ target_selection_mode = "manual")
       => LET objs == ev'.objs
              typed == PositionsOfType(objs, selected_target_type)
          IN /\ ManualSelectTarget(<< >>, selected_target_type) = NoneObj
             /\ target_object' =
                   IF typed # {} THEN objs[LowestOf(typed)]
                   ELSE IF objs # << >> THEN objs[1]
                   ELSE NoneObj]_vars

\* C18, the case: with faces configured, a list led by a colour object gave
\* the first of its two faces
C18_Witness ==
    /\ ev.kind = "frame"
    /\ ev.objs = <<ColorNearLeft, FaceRightOfCentre, FaceLeftOfCentre>>
    /\ target_selection_mode = "manual" /\ selected_target_type = "face"
    /\ target_object = FaceRightOfCentre

\* the tick of cycle `t` decides on its target in mode `mode` in this step
TickDecides(t, mode) ==
    /\ tthread[t].pc = "metrics" /\ tthread'[t].pc # "metrics"
    /\ target_object # NoneObj
    /\ tracking_mode = mode

\* the command the priority of follow mode names for `obj`
FollowPriority(obj) ==
    IF IsFar(obj, params.max_distance) THEN "forward"
    ELSE IF IsClose(obj, params.distance_threshold) THEN "reverse"
    ELSE IF ~IsCenteredX(obj, params.center_threshold)
         THEN IF obj.cx > HalfWidth THEN "right" ELSE "left"
    ELSE "steady"

\* C19: in follow mode every tick with a target requests exactly one
\* command, forward if the target is far, else reverse if it is close, else
\* left or right toward the centre if it is not centred in x, else steady;
\* the request is handed to the dog whenever the rate limiter passes.
C19_FollowOneCommandByPriority ==
    [][\A t \in TrackIds :
          (TickDecides(t, "follow") /\ LimiterPasses)
          => /\ ev'.kind = "dispatch" /\ ev'.src = "tick"
             /\ ev'.cmd = FollowPriority(target_object)]_vars

\* C20: in observe mode every command handed over by a tick that has a
\* target is left, right or steady, whatever the target's position and size.
C20_ObserveNeverDrives ==
    [][\A t \in TrackIds :
          TickDecides(t, "observe")
          => /\ ObserveCommand(target_object, params.center_threshold)
                   \in {"left", "right", "steady", "none"}
             /\ ev'.kind = "dispatch" => ev'.cmd \in {"left", "right", "steady"}
             /\ (LimiterPasses /\ IsCenteredX(target_object, params.center_threshold))
                => ev'.kind = "dispatch"]_vars

\* C20, the case: a target beyond max_distance, for which follow mode drives
\* forward, was answered with steady
C20_Witness ==
    /\ ev.kind = "dispatch" /\ ev.src = "tick" /\ ev.cmd = "steady"
    /\ tracking_mode = "observe"
    /\ target_object = FaceTiny

\* the command the order of approach mode names for `obj`
ApproachPriority(obj) ==
    IF ~IsCenteredX(obj, params.center_threshold)
    THEN IF obj.cx > HalfWidth THEN "right" ELSE "left"
    ELSE IF ~IsClose(obj, params.distance_threshold) THEN "forward"
    ELSE "handshake"

\* C21: in approach mode the command of a tick is a turn toward the target
\* if the target is not centred in x, close or not; else forward if the
\* target is not close; else handshake.
C21_ApproachTurnsFirst ==
    [][\A t \in TrackIds :
          (TickDecides(t, "approach") /\ ev'.kind = "dispatch")
          => ev'.cmd = ApproachPriority(target_object)]_vars

\* C22: in follow mode with the default thresholds a target at the frame
\* centre of area 8000 gets 'steady' and no forward, reverse or turn command.
C22_CentredTargetHeldSteady ==
    [][\A t \in TrackIds :
          (/\ TickDecides(t, "follow") /\ LimiterPasses
           /\ params = DefaultParams
           /\ target_object.cx = HalfWidth /\ target_object.cy = HalfHeight
           /\ target_object.area = 8000)
          => ev'.kind = "dispatch" /\ ev'.cmd = "steady"]_vars

\* C23: configure_tracking_parameters called with any tunable parameter
\* while a session runs completes without error, sets exactly that
\* parameter, and leaves is_tracking, the mode and the target as they were;
\* the tick that follows decides with the parameters as they are now.
C23_EveryParameterConfigurable ==
    [][/\ (ev'.kind = "configure" /\ is_tracking)
          => /\ ~ev'.raised
             /\ params' = [params EXCEPT ![ev'.name] = ev'.value]
             /\ UNCHANGED <<is_tracking, tracking_mode, target_object, tthread>>
       /\ \A t \in TrackIds :
             (TickDecides(t, "follow") /\ ev'.kind = "dispatch")
             => ev'.cmd = FollowCommand(target_object, params.center_threshold,
                                        params.distance_threshold, params.max_distance)]_vars

\* C24: a detection cycle that has entered its loop and a control cycle go
\* on, whatever fails in a frame or a tick, for as long as is_detecting,
\* respectively is_tracking, is true: a cycle ends only with its flag false.
C24_ErrorsNeverEndCycle ==
    [][/\ \A d \in DetectIds :
             (dthread[d].pc \in {"read", "wait"} /\ is_detecting)
             => dthread'[d].pc # "none"
       /\ \A t \in TrackIds :
             (tthread[t].pc # "none" /\ is_tracking) => tthread'[t].pc # "none"]_vars

\* C25: a tick that found a target computes its metrics from the target it
\* tested: when the tick comes to the metrics the target is still present,
\* and the tick does not end in the error sleep of the loop.
C25_TickUsesTestedTarget ==
    [][\A t \in TrackIds :
          (tthread[t].pc = "metrics" /\ tthread'[t].pc # "metrics")
          => /\ target_object # NoneObj
             /\ tthread'[t] # Sleeping(ErrorSleep)]_vars

\* C26: every call of start_following, stop_following and emergency_stop
\* ends by returning to the caller, also when the transport raised under it:
\* a start that did not start a session returns False.
C26_NoExceptionEscapes ==
    [][/\ (call.pc # "idle" /\ call'.pc = "idle")
          => ev'.kind = "return" /\ ev'.op = call.op
       /\ (ev'.kind = "return" /\ ev'.op = "start_following" /\ ~is_active')
          => ev'.value = FALSE]_vars

\* C26, the case: the transport raised under the 'stop' of emergency_stop and
\* the call returned
C26_Witness ==
    /\ ev.kind = "return" /\ ev.op = "emergency_stop" /\ ev.why = "exception"
    /\ call = IdleCall

\* C27: the dictionary returned by get_current_status holds the state as it
\* was at the call, and a later frame of the detection cycle does not change
\* what the caller reads in it.
C27_StatusSnapshotStable ==
    [][/\ ev'.kind = "status" => status' = [taken |-> TRUE, value |-> StatusValue]
       /\ (ev'.kind = "frame" /\ status.taken) => StatusSeen' = StatusSeen]_vars

\* C28: a stop call waits for its cycle no longer than the join timeout, and
\* a control cycle whose flag was cleared (a later start_tracking has started
\* another cycle since) ends when it next comes to its loop condition.
C28_ClearedCycleExits ==
    [][/\ call'.pc \in {"join_tracking", "join_detection"} => call'.join <= JoinTimeout
       /\ \A t \in TrackIds :
             (/\ tthread[t].pc = "loop" /\ tthread[t].wake = 0
              /\ tthread'[t] # tthread[t]
              /\ t # tracking_thread)
             => tthread'[t].pc = "none"]_vars

\* the control cycle `t` has handed over the turn of a search and not yet
\* its stop
TurnPending(t) ==
    \/ tthread[t].pc = "call" /\ tthread[t].via = "search_turn"
    \/ tthread[t].pc = "pause"

\* C29: a tick without a target hands over a turn when more than 1.0 s has
\* passed since the recorded time and nothing otherwise; whatever the
\* transport answers to the turn, the cycle goes on to the pause and to the
\* stop of the search, and no other command is handed over in between.
C29_SearchTurnThenStop ==
    [][\A t \in TrackIds :
          /\ (/\ tthread[t].pc = "loop" /\ tthread[t].wake = 0
              /\ tthread'[t] # tthread[t]
              /\ is_tracking /\ target_object = NoneObj)
             => IF age > SearchInterval
                THEN ev' = Dispatched("right", "search", target_dog)
                ELSE ev'.kind # "dispatch"
          /\ (/\ tthread[t].pc = "call" /\ tthread[t].via = "search_turn"
              /\ tthread'[t].pc # "call")
             => tthread'[t].pc = "pause"
          /\ (tthread[t].pc = "pause" /\ tthread'[t].pc # "pause")
             => ev' = Dispatched("stop", "search", target_dog)
          /\ (TurnPending(t) /\ ev'.kind = "dispatch")
             => ev'.src = "search" /\ ev'.cmd = "stop"]_vars

\* C30: in maintain_distance mode the centring part of a tick hands over a
\* left or right command toward the centre whenever the target of the tick is
\* off-centre in x, whether or not the PID part of the same tick handed over
\* forward or reverse.
C30_CentringIndependentOfPid ==
    [][\A t \in TrackIds :
          (/\ tthread[t].pc = "orient" /\ tthread'[t].pc # "orient"
           /\ OrientCommand(tthread[t].obj, params.center_threshold) # "none")
          => /\ ev'.kind = "dispatch"
             /\ ev'.cmd = OrientCommand(tthread[t].obj, params.center_threshold)]_vars

\* C31: after every frame tracked_objects is the list of that frame, and the
\* history holds the lists of the last HistoryCap frames in their order: the
\* list is appended, and when HistoryCap entries were held the oldest is gone.
C31_SnapshotReplacedHistoryBounded ==
    [][ev'.kind = "frame"
       => /\ tracked_objects' = ev'.objs
          /\ Len(tracking_history') <= HistoryCap
          /\ tracking_history' =
                IF Len(tracking_history) < HistoryCap
                THEN Append(tracking_history, ev'.objs)
                ELSE Append(Tail(tracking_history), ev'.objs)]_vars

\* C31, the case: the frame after HistoryCap frames was an empty one after a
\* frame with a face, and the oldest entry has left the history
C31_Witness ==
    /\ ev.kind = "frame" /\ ev.objs = << >>
    /\ FramesSeen > HistoryCap
    /\ Len(tracking_history) = HistoryCap
    /\ tracking_history[HistoryCap - 1] # << >>
    /\ tracked_objects = << >>

\* C32: stop_detection leaves is_detecting false and touches nothing else: it
\* fires no notification (statistics and target are as before), and called
\* while no detection thread is alive it does not wait, so that a second call
\* changes nothing the first has not changed.
C32_StopDetectionIdempotent ==
    [][/\ (call.pc = "idle" /\ call'.op = "stop_detection" /\ call'.pc = "join_detection")
          => /\ ~is_detecting'
             /\ ev'.kind # "frame"
             /\ ~DetectAlive(detection_thread) => call'.join = 0
             /\ UNCHANGED <<fbVars, detection_method, detection_thread, tracked_objects,
                            tracking_history, trkVars, dthread, tthread>>
       /\ (ev'.kind = "return" /\ ev'.op = "stop_detection")
          => /\ ~is_detecting'
             /\ UNCHANGED <<fbVars, detVars, trkVars, dthread, tthread>>]_vars

\* C32, the case: stop_detection has returned on a detector that was never
\* started
C32_Witness ==
    /\ ReturnedFrom("stop_detection")
    /\ detection_thread = 0
    /\ ~is_detecting /\ stats = NoStats /\ target_object = NoneObj

\* the objects colour tracking owes for the contours cs: one for every contour
\* of area at least `least`, in order, confidence min(area / 5000, 1.0)
OwedFor(cs, least) ==
    LET kept == SelectSeq(cs, LAMBDA c : c.area >= least)
    IN [k \in 1..Len(kept) |->
           [type |-> "color_object", cx |-> kept[k].x + kept[k].w \div 2,
            cy |-> kept[k].y + kept[k].h \div 2, area |-> kept[k].area,
            conf |-> IF kept[k].area >= ColorFullArea THEN 100
                     ELSE (kept[k].area * 100) \div ColorFullArea]]

\* C33: a frame handled by colour tracking with a target colour set reports
\* exactly the contours of area at least 500, a contour of area exactly 500
\* included, each with confidence min(area / 5000, 1.0), which is 1.0 from
\* area 5000 on.
C33_ColourKeepsAreaAtLeast500 ==
    [][(ev'.kind = "frame" /\ detection_method = "color_tracking"
        /\ target_color = "set")
       => tracked_objects' = OwedFor(scene, ColorMinArea)]_vars

\* the detection cycles in the history with a non-empty list, and with an
\* empty one
CyclesWith(h) == Cardinality({i \in 1..Len(h) : h[i] # << >>})
CyclesWithout(h) == Cardinality({i \in 1..Len(h) : h[i] = << >>})

\* C34: in the one session of a run, once start_following has returned True,
\* total_detections is the number of non-empty and lost_target_count the
\* number of empty detection cycles the session's detector has completed
\* since it was started: none that ran before the reset is lost.
C34_StatisticsCountEveryCycle ==
    (is_active /\ call.pc = "idle")
    => /\ stats.total_detections = CyclesWith(tracking_history)
       /\ stats.lost_target_count = CyclesWithout(tracking_history)

\* C35: a session starts without a target.  When start_following has started
\* the control cycle and the detector it started has not yet opened the
\* camera, the controller's target is none: nothing is left over from a
\* previous session.
C35_SessionStartsWithoutTarget ==
    [][(call.op = "start_following" /\ call.pc = "start_tracking"
        /\ call'.pc = "commit" /\ DetectAlive(detection_thread)
        /\ dthread[detection_thread].pc = "open")
       => target_object' = NoneObj]_vars

\* C36: when a detection cycle of an active session completes, the target is
\* none if the cycle's list was empty and otherwise an element of that list,
\* in automatic and in manual selection mode.
C36_TargetFromCurrentCycle ==
    [][(ev'.kind = "frame" /\ is_active)
       => IF ev'.objs = << >> THEN target_object' = NoneObj
          ELSE \E i \in 1..Len(ev'.objs) : target_object' = ev'.objs[i]]_vars

\* C36, the case: with a face as target from the first cycle, the second
\* cycle saw no face and gave the template match of its own list in manual
\* mode
C36_Witness ==
    /\ ev.kind = "frame" /\ is_active
    /\ Len(tracking_history) = 2
    /\ tracking_history[1] = <<FaceCentered>>
    /\ ev.objs = <<ColorNearLeft, TemplateWeak>>
    /\ target_selection_mode = "manual"
    /\ selected_target_type = "template_match"
    /\ target_object = TemplateWeak

\* C37: whenever a session is active and no call is in progress,
\* FollowingBehavior.current_mode equals TrackingController.tracking_mode;
\* switch_tracking_mode changes both modes of an active session to the new
\* mode and restarts and resets nothing of the control cycle, and changes
\* neither mode when no session is active.
C37_ModesAgreeWhileActive ==
    [][/\ (is_active' /\ call'.pc = "idle") => current_mode' = tracking_mode'
       /\ ev'.kind = "switch"
          => /\ IF is_active
                THEN current_mode' = ev'.mode /\ tracking_mode' = ev'.mode
                ELSE UNCHANGED <<current_mode, tracking_mode>>
             /\ UNCHANGED <<is_active, is_tracking, tracking_thread, tthread,
                            pid_error_sum, pid_last_error, target_object,
                            age>>]_vars

\* C37, the case: a session switched to observe mode, its control cycle
\* alive
C37_Witness ==
    /\ ev.kind = "switch" /\ ev.active /\ ev.mode = "observe"
    /\ is_active /\ is_tracking /\ TrackAlive(tracking_thread)
    /\ current_mode = "observe" /\ tracking_mode = "observe"

\* distance_estimate > distance_threshold
BeyondThreshold(obj, dt) == DistanceNum(obj) * 1000 > dt * DistanceAreaRef

\* C38: in maintain_distance mode with freshly reset PID accumulators the
\* first distance command has the direction follow mode gives: a target
\* farther than distance_threshold is not answered with reverse, a target
\* nearer than distance_threshold is not answered with forward.
C38_MaintainDistanceDirection ==
    [][\A t \in TrackIds :
          (/\ TickDecides(t, "maintain_distance")
           /\ pid_error_sum = 0 /\ pid_last_error = 0
           /\ ev'.kind = "dispatch")
          => /\ BeyondThreshold(target_object, params.distance_threshold)
                => ev'.cmd # "reverse"
             /\ IsClose(target_object, params.distance_threshold)
                => ev'.cmd # "forward"]_vars

\* C39: after every start and stop request the web layer's flag
\* app_state['following_active'] equals following_behavior.is_active; a
\* start request is refused by the route only while a session exists, and
\* start_following called by the route never fails on a session the flag did
\* not show.
C39_WebFlagInStep ==
    [][/\ (call'.pc = "idle" /\ ~ResponsePending')
          => app_state'.following_active = is_active'
       /\ ev' = Response("start", "info") => is_active
       /\ (ev'.kind = "return" /\ ev'.op = "start_following" /\ ~ev'.value)
          => ev'.why # "already_active"]_vars

\* C39, the case: a stop request answered after a session, flag and
\* behaviour both inactive
C39_Witness ==
    /\ ev = Response("stop", "success")
    /\ stats.session_start_time = "set"
    /\ ~app_state.following_active /\ ~is_active

\* the messages addressed to d, delivered and still queued, in that order
Addressed(d) == received[d] \o AddressedTo(message_queue, d)

InSendingOrder(q) == \A i, j \in 1..Len(q) : i < j => q[i].timestamp < q[j].timestamp

\* the sum of the lengths of Addressed(d) over the recipients in S
RECURSIVE CountAddressed(_)
CountAddressed(S) ==
    IF S = {} THEN 0
    ELSE LET d == CHOOSE x \in S : TRUE
         IN Len(Addressed(d)) + CountAddressed(S \ {d})

\* C40: every message is delivered exactly once and in order.  After every
\* step the messages returned to a robot so far followed by those still
\* queued for it are all the messages sent to it, each once, in sending
\* order; get_messages(d) returns the queued messages addressed to d in
\* order, removes them and leaves the others queued in their order.
C40_EachMessageOnceInOrder ==
    [][/\ \A d \in Recipients : InSendingOrder(Addressed(d))'
       /\ CountAddressed(Recipients)' = sent'
       /\ (ev'.kind = "return" /\ ev'.op = "get_messages")
          => /\ ev'.value = AddressedTo(message_queue, ev'.for)
             /\ AddressedTo(message_queue', ev'.for) = << >>
             /\ NotAddressedTo(message_queue', ev'.for)
                   = NotAddressedTo(message_queue, ev'.for)]_vars

\* C40, the case: a second get_messages for tom returned the one message sent
\* to tom since the first, and a message for jerry stays queued
C40_Witness ==
    /\ ev.kind = "return" /\ ev.op = "get_messages" /\ ev.for = "tom"
    /\ Len(ev.value) = 1
    /\ Len(received["tom"]) = 2
    /\ received["tom"][1].timestamp = 1 /\ received["tom"][2].timestamp = 3
    /\ Len(message_queue) = 1 /\ message_queue[1].to = "jerry"
    /\ message_queue[1].timestamp = 2

=============================================================================
